---- MODULE Spec2Model ----
(***************************************************************************)
(* A model of the DailyDJ recommendation pipeline:                         *)
(*   spotify_automation/gpt_recommender.py  (parse, merge, log)            *)
(*   spotify_automation/taste_profile.py    (normalize, ban, constraints)  *)
(* Strings that the code transforms (lower(), re.sub, strip, translate)    *)
(* are sequences of one-character strings; opaque strings are TLA+ strings.*)
(***************************************************************************)
EXTENDS Integers, Sequences, FiniteSets, TLC

VARIABLES
    pc,                   \* which operation the program is in / has finished
    base_tracks,          \* merge_gpt_recommendations: argument
    track_pool,           \* merge_gpt_recommendations: argument
    gpt_recommendations,  \* merge_gpt_recommendations: argument
    total_limit,          \* merge_gpt_recommendations: argument
    discovery_ratio,      \* merge_gpt_recommendations: argument, in quarters
    rule_preferences,     \* merge_gpt_recommendations: argument (or None)
    final_tracks,         \* merge_gpt_recommendations: first result
    warnings,             \* merge_gpt_recommendations: second result
    candidate_tracks,     \* apply_constraints: argument `tracks`
    constraints,          \* apply_constraints: profile["constraints"]
    feedback_state,       \* apply_constraints: argument
    now,                  \* apply_constraints: argument, in ticks
    filtered,             \* apply_constraints: result
    ban_artist,           \* is_hard_banned: argument `artist`
    ban_title,            \* is_hard_banned: argument `title`
    hard_bans,            \* is_hard_banned: profile["hard_bans"]
    is_banned,            \* is_hard_banned: result
    response_text,        \* GPTResponseParser.parse: argument, as tokens
    parsed,               \* GPTResponseParser.parse: what it returned or raised
    destination,          \* log_recommendations: the file's content, as tokens
    logged,               \* the tracks and labels passed to log_recommendations
    log_calls,            \* the number of calls of log_recommendations
    store,                \* the catalog store: tracks, bans, artist_bans, playlist runs
    provider,             \* the items of the provider's playlist
    config,               \* the settings and rule sets read at import
    run,                  \* the locals of main() of daily_dj_refresh.py
    profile_file,         \* load_taste_profile: the file at path, None when it does not exist
    yaml_module,          \* whether import yaml succeeds
    set_order,            \* the iteration order of a set of str in this process
    taste_profile,        \* load_taste_profile: what it returned or raised
    event_log,            \* load_state: the lines of the file at path, None when it does not exist
    like_threshold,       \* load_state: artist_like_threshold
    replayed,             \* load_state: the state it returned
    scored_track,         \* score_track: argument `track`
    score_profile,        \* score_track: argument `profile`
    score_state,          \* score_track: argument `feedback_state`
    score_now,            \* score_track: argument `now`, in ticks
    score,                \* score_track: result, in hundredths
    prompt,               \* run_gpt_recommender: the arguments of builder.build, None before the call
    client_calls          \* run_gpt_recommender: the number of calls of client.complete

mergeVars == <<base_tracks, track_pool, gpt_recommendations, total_limit,
               discovery_ratio, rule_preferences, final_tracks, warnings>>

constraintVars == <<candidate_tracks, constraints, feedback_state, now, filtered>>

banVars == <<ban_artist, ban_title, hard_bans, is_banned>>

parseVars == <<response_text, parsed>>

logVars == <<destination, logged, log_calls>>

refreshVars == <<store, provider, config, run>>

profileVars == <<profile_file, yaml_module, set_order, taste_profile>>

feedbackVars == <<event_log, like_threshold, replayed>>

scoreVars == <<scored_track, score_profile, score_state, score_now, score>>

recommenderVars == <<prompt, client_calls>>

vars == <<pc, mergeVars, constraintVars, banVars, parseVars, logVars, refreshVars, profileVars, feedbackVars, scoreVars, recommenderVars>>

(***************************************************************************)
(* Bounds of the model.                                                    *)
(***************************************************************************)
MaxPool  == 2      \* longest track_pool
MaxRecs  == 2      \* longest gpt_recommendations
MaxLimit == 3      \* largest total_limit
MaxTracks == 3     \* longest input of apply_constraints
MaxQuota == 2      \* largest max_tracks_per_artist
MaxBans  == 2      \* longest hard-ban list
MaxEntries == 2    \* longest `recommendations` list of a response
MaxLogTracks == 2  \* longest track list of one log_recommendations call
MaxLogCalls == 2   \* calls of log_recommendations in one behaviour
MaxPerDay == 2     \* largest tracks_per_day
MaxLogLines == 3       \* lines of the feedback event log
MaxGptTracks == 2  \* longest list the recommender hands back

(***************************************************************************)
(* Python values.                                                          *)
(***************************************************************************)
\* Optional[T]: None is the empty tuple, a value v is the 1-tuple <<v>>
None == <<>>
Some(v) == <<v>>

Max(a, b) == IF a >= b THEN a ELSE b
Min(a, b) == IF a <= b THEN a ELSE b

\* All sequences over S of length at most n.
SeqsUpTo(S, n) == UNION {[1..k -> S] : k \in 0..n}

\* s[:n] for n >= 0
Take(s, n) == SubSeq(s, 1, Min(n, Len(s)))

\* the elements of a list, as a set
Range(s) == {s[k] : k \in 1..Len(s)}

\* the members of set of positions P of s, as the subsequence of s
SubseqAt(s, P) ==
    LET nth(k) == CHOOSE i \in P : Cardinality({j \in P : j < i}) = k - 1
    IN  [k \in 1..Cardinality(P) |-> s[nth(k)]]

(***************************************************************************)
(* str methods used by the code, on sequences of characters.               *)
(***************************************************************************)
UpperToLower == [A |-> "a", B |-> "b", F |-> "f", M |-> "m", O |-> "o",
                 Q |-> "q", S |-> "s", T |-> "t", W |-> "w", X |-> "x",
                 Y |-> "y", Z |-> "z"]

LowerChar(c) == IF c \in DOMAIN UpperToLower THEN UpperToLower[c] ELSE c

\* str.lower()
Lower(s) == [i \in 1..Len(s) |-> LowerChar(s[i])]

\* the characters matched by \s
Whitespace == {" ", "\t"}

\* re.sub(r"\s+", " ", s): every maximal run of whitespace becomes one space
RECURSIVE CollapseWhitespace(_)
CollapseWhitespace(s) ==
    IF s = <<>> THEN <<>>
    ELSE IF Head(s) \in Whitespace
         THEN IF Len(s) > 1 /\ s[2] \in Whitespace
              THEN CollapseWhitespace(Tail(s))
              ELSE <<" ">> \o CollapseWhitespace(Tail(s))
         ELSE <<Head(s)>> \o CollapseWhitespace(Tail(s))

RECURSIVE LStrip(_)
LStrip(s) == IF s # <<>> /\ Head(s) \in Whitespace THEN LStrip(Tail(s)) ELSE s

RECURSIVE RStrip(_)
RStrip(s) ==
    IF s # <<>> /\ s[Len(s)] \in Whitespace
    THEN RStrip(SubSeq(s, 1, Len(s) - 1))
    ELSE s

\* str.strip()
Strip(s) == RStrip(LStrip(s))

(***************************************************************************)
(* gpt_recommender.py: merging.                                            *)
(***************************************************************************)
\* TrackCandidate; metadata is a set of <<key, value>> pairs
TrackCandidate(id, title, artist, metadata) ==
    [track_id |-> id, title |-> title, artist |-> artist, album |-> None,
     energy_tag |-> None, metadata |-> metadata]

\* GPTRecommendation; confidence in hundredths
GPTRecommendation(title, artist, reason, id, confidence) ==
    [title |-> title, artist |-> artist, reason |-> reason, energy_tag |-> None,
     spotify_track_id |-> id, confidence |-> confidence]

\* RulePreferences
RulePreferences(banned, reduce, increase) ==
    [banned_artists |-> banned, reduce_frequency_artists |-> reduce,
     increase_weight_artists |-> increase]

\* round(n / d) as Python 3 rounds a float: halves go to the even neighbour
PyRound(n, d) ==
    LET q == n \div d
        r == n - q * d
    IN  IF 2 * r < d THEN q
        ELSE IF 2 * r > d THEN q + 1
        ELSE IF q % 2 = 0 THEN q ELSE q + 1

\* discovery_ratio is kept as a number of quarters (1 is 0.25), exact as a float
RatioDen == 4

DiscoveryTarget(limit, ratio) ==
    Max(0, Min(limit, PyRound(limit * ratio, RatioDen)))

_normalize_key(artist, title) ==
    LET normalize(value) == Lower(Strip(CollapseWhitespace(value)))
    IN  normalize(artist) \o <<":", ":">> \o normalize(title)

\* dict assignment index[k] = v
DictSet(index, k, v) ==
    [x \in (DOMAIN index) \cup {k} |-> IF x = k THEN v ELSE index[x]]

\* dict.get(k)
DictGet(index, k) == IF k \in DOMAIN index THEN Some(index[k]) ELSE None

EmptyDict == [x \in {} |-> None]

RECURSIVE BuildIndexFrom(_, _)
BuildIndexFrom(index, pool) ==
    IF pool = <<>> THEN index
    ELSE LET track == Head(pool)
             byId == IF track.track_id # <<>>
                     THEN DictSet(index, Lower(track.track_id), track)
                     ELSE index
             key == _normalize_key(track.artist, track.title)
         IN  BuildIndexFrom(DictSet(byId, key, track), Tail(pool))

_build_track_index(pool) == BuildIndexFrom(EmptyDict, pool)

\* f"{rec.confidence:.2f}" for the confidences the model draws
FormatConfidence(c) ==
    CASE c = 0   -> "0.00"
      [] c = 50  -> "0.50"
      [] c = 90  -> "0.90"
      [] c = 100 -> "1.00"
      [] OTHER   -> "0.??"

\* {**track.metadata, "gpt_reason": ..., "gpt_confidence": ...}
Enrich(track, rec) ==
    [track EXCEPT !.metadata =
        {kv \in track.metadata : kv[1] \notin {"gpt_reason", "gpt_confidence"}}
        \cup {<<"gpt_reason", rec.reason>>,
              <<"gpt_confidence", FormatConfidence(rec.confidence)>>}]

NotInPoolWarning(rec) ==
    [kind |-> "not_in_pool", artist |-> rec.artist, title |-> rec.title]

\* the lookup without the artist::title fallback
LookupRec_id_only(rec, index) ==
    IF rec.spotify_track_id # None /\ rec.spotify_track_id[1] # <<>>
    THEN DictGet(index, Lower(rec.spotify_track_id[1]))
    ELSE None

\* the track a recommendation resolves to, or None
LookupRec(rec, index) ==
    LET byId == IF rec.spotify_track_id # None /\ rec.spotify_track_id[1] # <<>>
                THEN DictGet(index, Lower(rec.spotify_track_id[1]))
                ELSE None
    IN  IF byId # None THEN byId
        ELSE DictGet(index, _normalize_key(rec.artist, rec.title))

\* one iteration of the loop over recommendations: track is the lookup's result
MatchOne(rec, track, rest) ==
    IF track = None
    THEN <<rest[1], <<NotInPoolWarning(rec)>> \o rest[2]>>
    ELSE <<(<<Enrich(track[1], rec)>>) \o rest[1], rest[2]>>

\* <<matched, warnings>>
RECURSIVE _match_recommendations(_, _)
_match_recommendations(recommendations, index) ==
    IF recommendations = <<>> THEN <<(<<>>), (<<>>)>>
    ELSE MatchOne(Head(recommendations), LookupRec(Head(recommendations), index),
                  _match_recommendations(Tail(recommendations), index))

IdsOf(tracks) == {tracks[i].track_id : i \in 1..Len(tracks)}

\* add_track without the seen_ids test
add_track_unchecked(final, track) == Append(final, track)

\* add_track: append unless the identifier is already in seen_ids
add_track(final, track) ==
    IF track.track_id \in IdsOf(final) THEN final ELSE Append(final, track)

\* for track in tracks: add_track(track)
RECURSIVE AddAll(_, _)
AddAll(final, tracks) ==
    IF tracks = <<>> THEN final
    ELSE AddAll(add_track(final, Head(tracks)), Tail(tracks))

\* for track in tracks: if len(final) >= limit: break; add_track(track)
RECURSIVE AddUpTo(_, _, _)
AddUpTo(final, tracks, limit) ==
    IF tracks = <<>> \/ Len(final) >= limit THEN final
    ELSE AddUpTo(add_track(final, Head(tracks)), Tail(tracks), limit)

\* the preference weight, in thousandths
_preference_weight(track, prefs) ==
    LET artist == Lower(track.artist)
        in(items) == \E i \in 1..Len(items) : artist = Lower(items[i])
        w1 == IF in(prefs.increase_weight_artists) THEN (1000 * 13) \div 10 ELSE 1000
        w2 == IF in(prefs.reduce_frequency_artists) THEN (w1 * 7) \div 10 ELSE w1
        w3 == IF in(prefs.banned_artists) THEN w2 \div 10 ELSE w2
    IN  w3

\* insert t before the elements whose weight equals its own
RECURSIVE InsertByWeight_unstable(_, _, _)
InsertByWeight_unstable(sorted, t, prefs) ==
    IF sorted = <<>> THEN <<t>>
    ELSE IF _preference_weight(Head(sorted), prefs) > _preference_weight(t, prefs)
         THEN <<Head(sorted)>> \o InsertByWeight_unstable(Tail(sorted), t, prefs)
         ELSE <<t>> \o sorted

\* insert t behind every element whose weight is >= its own (stable, descending)
RECURSIVE InsertByWeight(_, _, _)
InsertByWeight(sorted, t, prefs) ==
    IF sorted = <<>> THEN <<t>>
    ELSE IF _preference_weight(Head(sorted), prefs) >= _preference_weight(t, prefs)
         THEN <<Head(sorted)>> \o InsertByWeight(Tail(sorted), t, prefs)
         ELSE <<t>> \o sorted

\* list.sort(key=weight, reverse=True)
RECURSIVE SortByWeight(_, _)
SortByWeight(tracks, prefs) ==
    IF tracks = <<>> THEN <<>>
    ELSE InsertByWeight(SortByWeight(SubSeq(tracks, 1, Len(tracks) - 1), prefs),
                        tracks[Len(tracks)], prefs)

\* no fill from the remaining pool
FillFromPool_skipped(final, pool, limit) == final

\* the fill from the remaining pool (lines 358-367)
FillFromPool(final, pool, limit) ==
    IF Len(final) < limit
    THEN AddUpTo(final,
                 SelectSeq(pool, LAMBDA t : t.track_id \notin IdsOf(final)),
                 limit)
    ELSE final

\* the truncation and the sort with the banned artists' tracks taken out
TruncateAndSort_drops_banned(final, limit, prefs) ==
    IF prefs # None
    THEN SortByWeight(
             SelectSeq(Take(final, limit),
                       LAMBDA t : ~\E i \in 1..Len(prefs[1].banned_artists) :
                                     Lower(t.artist) = Lower(prefs[1].banned_artists[i])),
             prefs[1])
    ELSE Take(final, limit)

\* final_tracks[:total_limit], then the preference sort (lines 369-373)
TruncateAndSort(final, limit, prefs) ==
    IF prefs # None THEN SortByWeight(Take(final, limit), prefs[1])
    ELSE Take(final, limit)

\* the merge with the base tracks placed before the discoveries
MergeMatched_base_first(m, base, pool, limit, discovery_target, prefs) ==
    <<TruncateAndSort(
          FillFromPool(
              AddAll(AddUpTo(<<>>, base, limit), Take(m[1], discovery_target)),
              pool, limit),
          limit, prefs),
      m[2]>>

\* the merge without matched_discoveries[:discovery_target]
MergeMatched_unsliced(m, base, pool, limit, discovery_target, prefs) ==
    <<TruncateAndSort(
          FillFromPool(AddUpTo(AddAll(<<>>, m[1]), base, limit), pool, limit),
          limit, prefs),
      m[2]>>

\* lines 339-375, m being the result of _match_recommendations
MergeMatched(m, base, pool, limit, discovery_target, prefs) ==
    <<TruncateAndSort(
          FillFromPool(
              AddUpTo(AddAll(<<>>, Take(m[1], discovery_target)), base, limit),
              pool, limit),
          limit, prefs),
      m[2]>>

\* <<final_tracks, warnings>>
merge_gpt_recommendations(base, pool, recs, limit, ratio, prefs) ==
    IF limit <= 0 THEN <<(<<>>), <<[kind |-> "total_limit"]>>>>
    ELSE MergeMatched(_match_recommendations(recs, _build_track_index(pool)),
                      base, pool, limit, DiscoveryTarget(limit, ratio), prefs)

(***************************************************************************)
(* Inputs of the merge.                                                    *)
(***************************************************************************)
\* TA and TB: identifiers that differ only in case, same artist::title key.
TA == TrackCandidate(<<"a">>, <<"s">>, <<"X">>, {})
TB == TrackCandidate(<<"A">>, <<"S">>, <<"x", " ">>, {<<"source", "db">>})
TC == TrackCandidate(<<"b">>, <<"t">>, <<"Y">>, {})

Tracks == {TA, TB, TC}

\* the rule-based lists drawn: empty, one track, a repeated track, two tracks
BaseLists == {<<>>, <<TA>>, <<TC>>, <<TA, TA>>, <<TA, TC>>, <<TC, TA>>}

\* RA resolves by identifier, RK by artist::title key, RU resolves to nothing.
RA == GPTRecommendation(<<"q">>, <<"Q">>, "fits", Some(<<"A">>), 90)
RK == GPTRecommendation(<<"T">>, <<"\t", "y">>, "fresh", None, 50)
RU == GPTRecommendation(<<"q">>, <<"Q">>, "new", Some(<<"z">>), 100)

Recs == {RA, RK, RU}

\* two recommendations for one pool track, then one for another
RepeatedRecs == <<RA, RA, RK>>

\* -0.25, 0, 0.25, 0.5, 1, 1.5
Ratios == {-1, 0, 1, 2, 4, 6}

Prefs == RulePreferences(<<>>, <<<<"x">>>>, <<<<"y">>>>)

\* rule preferences: the lists of Prefs, entries in another letter case, one
\* artist in all three lists, one increased artist, and empty lists
PrefChoices ==
    {Prefs,
     RulePreferences(<<<<"Y">>>>, <<>>, <<<<"X">>>>),
     RulePreferences(<<<<"x">>>>, <<<<"X">>>>, <<<<"x">>>>),
     RulePreferences(<<>>, <<>>, <<<<"Y">>>>),
     RulePreferences(<<>>, <<>>, <<>>)}

MergeIdle ==
    /\ base_tracks = <<>>
    /\ track_pool = <<>>
    /\ gpt_recommendations = <<>>
    /\ total_limit = 0
    /\ discovery_ratio = 0
    /\ rule_preferences = None
    /\ final_tracks = <<>>
    /\ warnings = <<>>

MergeInit ==
    /\ base_tracks \in BaseLists
    /\ track_pool \in SeqsUpTo(Tracks, MaxPool)
    /\ gpt_recommendations \in SeqsUpTo(Recs, MaxRecs) \cup {RepeatedRecs}
    /\ total_limit \in 0..MaxLimit
    /\ discovery_ratio \in Ratios
    /\ rule_preferences = None
    /\ final_tracks = <<>>
    /\ warnings = <<>>

\* the calls that pass rule preferences
MergePrefsInit ==
    /\ base_tracks \in BaseLists
    /\ track_pool \in SeqsUpTo(Tracks, MaxPool)
    /\ gpt_recommendations \in {<<>>, <<RK>>, <<RA, RK>>}
    /\ total_limit \in 1..MaxLimit
    /\ discovery_ratio \in {0, RatioDen}
    /\ rule_preferences \in {Some(prefs) : prefs \in PrefChoices}
    /\ final_tracks = <<>>
    /\ warnings = <<>>

\* final_tracks, warnings = merge_gpt_recommendations(...)
MergeReturns(result) ==
    /\ final_tracks' = result[1]
    /\ warnings' = result[2]

Merge ==
    /\ pc = "merge"
    /\ MergeReturns(merge_gpt_recommendations(base_tracks, track_pool,
                        gpt_recommendations, total_limit, discovery_ratio,
                        rule_preferences))
    /\ pc' = "merged"
    /\ UNCHANGED <<base_tracks, track_pool, gpt_recommendations, total_limit,
                   discovery_ratio, rule_preferences>>
    /\ UNCHANGED <<constraintVars, banVars, parseVars, logVars, refreshVars, profileVars, feedbackVars, scoreVars, recommenderVars>>

(***************************************************************************)
(* taste_profile.py: normalize_text, is_hard_banned, apply_constraints.    *)
(***************************************************************************)
\* the characters of string.punctuation the model's strings use
Punctuation == {"!", ".", ",", "'", "-", "&", "+"}

\* str.replace(old, " and ") for a one-character old
RECURSIVE ReplaceWithAnd(_, _)
ReplaceWithAnd(s, old) ==
    IF s = <<>> THEN <<>>
    ELSE (IF Head(s) = old THEN <<" ", "a", "n", "d", " ">> ELSE <<Head(s)>>)
         \o ReplaceWithAnd(Tail(s), old)

\* str.translate(str.maketrans("", "", string.punctuation))
DeletePunctuation(s) == SelectSeq(s, LAMBDA c : c \notin Punctuation)

\* normalize_text without the replacement of "+"
normalize_text_keeps_plus(text) ==
    Strip(CollapseWhitespace(DeletePunctuation(ReplaceWithAnd(Lower(text), "&"))))

normalize_text(text) ==
    Strip(CollapseWhitespace(DeletePunctuation(
        ReplaceWithAnd(ReplaceWithAnd(Lower(text), "&"), "+"))))

\* Python's `a in b` for strings
IsSubstring(a, b) ==
    \E i \in 0..(Len(b) - Len(a)) : SubSeq(b, i + 1, i + Len(a)) = a

is_hard_banned(a, t, bans) ==
    LET norm_artist == normalize_text(a)
        norm_title == normalize_text(t)
    IN  IF \E i \in 1..Len(bans.artists) :
               IsSubstring(normalize_text(bans.artists[i]), norm_artist)
        THEN TRUE
        ELSE \E i \in 1..Len(bans.tracks) :
               IsSubstring(normalize_text(bans.tracks[i]), norm_title)

\* one day, in ticks of `now` and of the last-seen timestamps
TicksPerDay == 2

\* timedelta(days=n)
Days(n) == n * TicksPerDay

\* dict.get(key, 0)
CountOf(counts, key) == IF key \in DOMAIN counts THEN counts[key] ELSE 0

\* the cooldown tests without the artist's
InCooldown_track_only(track, cons, fs, t) ==
    LET last_track_play == DictGet(fs.track_last_seen, Lower(track.track_id))
    IN  /\ last_track_play # None
        /\ t - last_track_play[1] < Days(cons.cooldown_days_same_track)

\* the cooldown tests of lines 198-206: TRUE when the track is rejected
InCooldown(track, cons, fs, t) ==
    LET last_track_play == DictGet(fs.track_last_seen, Lower(track.track_id))
        last_artist_play == DictGet(fs.artist_last_seen, Lower(track.artist))
    IN  \/ /\ last_track_play # None
           /\ t - last_track_play[1] < Days(cons.cooldown_days_same_track)
        \/ /\ last_artist_play # None
           /\ t - last_artist_play[1] < Days(cons.cooldown_days_same_artist)

\* the quota test with > for >=
QuotaReached_off_by_one(st, track, cons) ==
    CountOf(st.artist_counts, Lower(track.artist)) > cons.max_tracks_per_artist

\* line 195
QuotaReached(st, track, cons) ==
    CountOf(st.artist_counts, Lower(track.artist)) >= cons.max_tracks_per_artist

\* the loop body with a track in cooldown counted toward its artist's quota
ConstrainStep_counts_rejected(st, track, i, cons, fs, t) ==
    IF QuotaReached(st, track, cons) THEN st
    ELSE IF InCooldown(track, cons, fs, t)
    THEN [st EXCEPT !.artist_counts =
              DictSet(@, Lower(track.artist),
                      CountOf(@, Lower(track.artist)) + 1)]
    ELSE IF cons.dedupe_title_variants
            /\ normalize_text(track.title) \in st.seen_titles THEN st
    ELSE [artist_counts |->
              DictSet(st.artist_counts, Lower(track.artist),
                      CountOf(st.artist_counts, Lower(track.artist)) + 1),
          seen_titles |->
              IF cons.dedupe_title_variants
              THEN st.seen_titles \cup {normalize_text(track.title)}
              ELSE st.seen_titles,
          filtered |-> Append(st.filtered, track),
          positions |-> Append(st.positions, i)]

\* one iteration of the loop of apply_constraints over the track at position i;
\* st holds artist_counts, seen_titles, filtered and the accepted positions
ConstrainStep(st, track, i, cons, fs, t) ==
    IF QuotaReached(st, track, cons) THEN st
    ELSE IF InCooldown(track, cons, fs, t) THEN st
    ELSE IF cons.dedupe_title_variants
            /\ normalize_text(track.title) \in st.seen_titles THEN st
    ELSE [artist_counts |->
              DictSet(st.artist_counts, Lower(track.artist),
                      CountOf(st.artist_counts, Lower(track.artist)) + 1),
          seen_titles |->
              IF cons.dedupe_title_variants
              THEN st.seen_titles \cup {normalize_text(track.title)}
              ELSE st.seen_titles,
          filtered |-> Append(st.filtered, track),
          positions |-> Append(st.positions, i)]

RECURSIVE ConstrainFrom(_, _, _, _, _, _)
ConstrainFrom(st, i, ts, cons, fs, t) ==
    IF i > Len(ts) THEN st
    ELSE ConstrainFrom(ConstrainStep(st, ts[i], i, cons, fs, t), i + 1, ts, cons, fs, t)

ConstrainLoop(ts, cons, fs, t) ==
    ConstrainFrom([artist_counts |-> EmptyDict, seen_titles |-> {},
                   filtered |-> <<>>, positions |-> <<>>],
                  1, ts, cons, fs, t)

apply_constraints(ts, cons, fs, t) == ConstrainLoop(ts, cons, fs, t).filtered

\* the input positions of the tracks apply_constraints returns
AcceptedPositions(ts, cons, fs, t) == ConstrainLoop(ts, cons, fs, t).positions

(***************************************************************************)
(* Inputs of apply_constraints.                                            *)
(***************************************************************************)
\* the strings of the tracks of test_taste_profile.py, as character sequences
TasteStr ==
    [Weezer |-> <<"W", "e", "e", "z", "e", "r">>,
     weezer |-> <<"w", "e", "e", "z", "e", "r">>,
     Other |-> <<"O", "t", "h", "e", "r">>,
     Song1 |-> <<"S", "o", "n", "g", "1">>,
     Song2 |-> <<"S", "o", "n", "g", "2">>,
     Song3 |-> <<"S", "o", "n", "g", "3">>,
     song1x |-> <<"s", "o", "n", "g", "1", "!">>,
     t1 |-> <<"t", "1">>,
     T1 |-> <<"T", "1">>,
     t2 |-> <<"t", "2">>,
     t3 |-> <<"t", "3">>]

\* the candidates of test_constraints_max_per_artist
W1 == TrackCandidate(TasteStr.t1, TasteStr.Song1, TasteStr.Weezer, {})
W2 == TrackCandidate(TasteStr.t2, TasteStr.Song2, TasteStr.Weezer, {})
O3 == TrackCandidate(TasteStr.t3, TasteStr.Song3, TasteStr.Other, {})
\* a variant of W1: identifier, artist and title differ from it in case and
\* punctuation only
V1 == TrackCandidate(TasteStr.T1, TasteStr.song1x, TasteStr.weezer, {})

Candidates == {W1, W2, O3, V1}

Now == 8

\* ages of a last-seen record, in ticks: half a day, one day, two days
Ages == {1, 2, 4}

\* a last-seen dict: empty, or one key seen `age` ticks before Now
LastSeenChoices(key) ==
    {EmptyDict} \cup {[k \in {key} |-> Now - age] : age \in Ages}

ConstraintsIdle ==
    /\ candidate_tracks = <<>>
    /\ constraints = <<>>
    /\ feedback_state = <<>>
    /\ now = 0
    /\ filtered = <<>>

ConstraintsInit ==
    /\ candidate_tracks \in SeqsUpTo(Candidates, MaxTracks)
    /\ constraints \in [max_tracks_per_artist : 0..MaxQuota,
                        cooldown_days_same_track : {1, 2},
                        cooldown_days_same_artist : {1, 2},
                        dedupe_title_variants : BOOLEAN]
    /\ feedback_state \in [track_last_seen : LastSeenChoices(TasteStr.t1),
                           artist_last_seen : LastSeenChoices(TasteStr.weezer)]
    /\ now = Now
    /\ filtered = <<>>

\* the calls with one-day cooldowns: every candidate list, every quota, title
\* dedupe on and off, a track record of every age and an artist record
GreedyInit ==
    /\ candidate_tracks \in SeqsUpTo(Candidates, MaxTracks)
    /\ constraints \in [max_tracks_per_artist : 0..MaxQuota,
                        cooldown_days_same_track : {1},
                        cooldown_days_same_artist : {1},
                        dedupe_title_variants : BOOLEAN]
    /\ feedback_state \in [track_last_seen : LastSeenChoices(TasteStr.t1),
                           artist_last_seen :
                               {EmptyDict, [k \in {TasteStr.weezer} |-> Now - 1]}]
    /\ now = Now
    /\ filtered = <<>>

ApplyConstraints ==
    /\ pc = "apply_constraints"
    /\ filtered' = apply_constraints(candidate_tracks, constraints,
                                     feedback_state, now)
    /\ pc' = "constrained"
    /\ UNCHANGED <<candidate_tracks, constraints, feedback_state, now>>
    /\ UNCHANGED <<mergeVars, banVars, parseVars, logVars, refreshVars, profileVars, feedbackVars, scoreVars, recommenderVars>>

(***************************************************************************)
(* Inputs of is_hard_banned.                                               *)
(***************************************************************************)
\* artist, title and ban strings, as character sequences
BanStr ==
    [Florence |-> <<"F", "l", "o", "r", "e", "n", "c", "e", " ", "+", " ", "T", "h", "e", " ", "M", "a", "c", "h", "i", "n", "e">>,
     florence |-> <<"f", "l", "o", "r", "e", "n", "c", "e", " ", "a", "n", "d", " ", "t", "h", "e", " ", "m", "a", "c", "h", "i", "n", "e">>,
     DogDays |-> <<"D", "o", "g", " ", "D", "a", "y", "s", " ", "A", "r", "e", " ", "O", "v", "e", "r">>,
     BuddyHolly |-> <<"B", "u", "d", "d", "y", " ", "H", "o", "l", "l", "y">>,
     Machine |-> <<" ", "T", "h", "e", " ", " ", "M", "A", "C", "H", "I", "N", "E", "!">>,
     dog |-> <<"d", "o", "g", "-", "d", "a", "y", "s">>,
     Bang |-> <<"!">>,
     Tom |-> <<"T", "o", "m", " ", "&", " ", "F", "l", "o">>,
     flo |-> <<"a", "n", "d", " ", "f", "l", "o">>]

ArtistChoices == {BanStr.Florence, TasteStr.Weezer, BanStr.Tom, BanStr.Bang}
TitleChoices == {BanStr.DogDays, BanStr.BuddyHolly, TasteStr.Song1}
ArtistBanChoices == {BanStr.florence, BanStr.Machine, BanStr.flo, BanStr.Bang, BanStr.dog}
TrackBanChoices == {BanStr.dog, BanStr.BuddyHolly, TasteStr.weezer}

BanIdle ==
    /\ ban_artist = <<>>
    /\ ban_title = <<>>
    /\ hard_bans = <<>>
    /\ is_banned = FALSE

BanInit ==
    /\ ban_artist \in ArtistChoices
    /\ ban_title \in TitleChoices
    /\ hard_bans \in [artists : SeqsUpTo(ArtistBanChoices, MaxBans),
                      tracks : SeqsUpTo(TrackBanChoices, MaxBans)]
    /\ is_banned = FALSE

IsHardBanned ==
    /\ pc = "is_hard_banned"
    /\ is_banned' = is_hard_banned(ban_artist, ban_title, hard_bans)
    /\ pc' = "ban_checked"
    /\ UNCHANGED <<ban_artist, ban_title, hard_bans>>
    /\ UNCHANGED <<mergeVars, constraintVars, parseVars, logVars, refreshVars, profileVars, feedbackVars, scoreVars, recommenderVars>>

(***************************************************************************)
(* gpt_recommender.py: GPTResponseParser.                                  *)
(* A JSON value is a tagged record; numbers are kept in hundredths.  A     *)
(* response text is a sequence of tokens: a ``` fence, the word json after *)
(* a fence, a JSON document, or prose that is no JSON.                     *)
(***************************************************************************)
JNull == [t |-> "null"]
JNum(n) == [t |-> "num", n |-> n]
JStr(str) == [t |-> "str", s |-> str]
JList(items) == [t |-> "list", items |-> items]
\* an object, as its set of <<key, value>> pairs
JObj(pairs) == [t |-> "obj", pairs |-> pairs]

Fence == [t |-> "fence"]
JsonTag == [t |-> "tag"]
Prose == [t |-> "prose"]
Doc(v) == [t |-> "doc", v |-> v]

\* what a call did: returned a value or raised an exception
Returned(v) == [status |-> "returned", exc |-> "", value |-> v]
Raised(exc) == [status |-> "raised", exc |-> exc, value |-> <<>>]

\* _extract_json: the text between the first fence (and a json tag behind it)
\* and the last fence; the whole text when there are not two fences
_extract_json(text) ==
    LET fences == {i \in 1..Len(text) : text[i] = Fence}
        first == CHOOSE i \in fences : \A j \in fences : i <= j
        last == CHOOSE i \in fences : \A j \in fences : j <= i
        from == IF first + 1 < last /\ text[first + 1] = JsonTag
                THEN first + 2 ELSE first + 1
    IN  IF Cardinality(fences) < 2 THEN text
        ELSE SubSeq(text, from, last - 1)

\* json.loads: the document, or None for a JSONDecodeError
JsonLoads(text) ==
    IF Len(text) = 1 /\ text[1].t = "doc" THEN Some(text[1].v) ELSE None

HasKey(obj, key) == \E kv \in obj.pairs : kv[1] = key

\* dict[key]
Item(obj, key) == (CHOOSE kv \in obj.pairs : kv[1] = key)[2]

\* dict.get(key): None when the key is absent or its value is null
ItemOrNone(obj, key) ==
    IF HasKey(obj, key) /\ Item(obj, key) # JNull
    THEN Some(Item(obj, key)) ELSE None

\* bool(value) is False
Falsy(v) ==
    \/ v.t = "null"
    \/ v.t = "num" /\ v.n = 0
    \/ v.t = "str" /\ v.s = <<>>
    \/ v.t = "list" /\ v.items = <<>>
    \/ v.t = "obj" /\ v.pairs = {}

\* the required-field loop of _parse_rec (lines 278-281): "" when every field
\* passes, else the exception raised
RequiredFields == <<"title", "artist", "reason">>

RECURSIVE CheckRequired(_, _)
CheckRequired(data, i) ==
    IF i > Len(RequiredFields) THEN ""
    ELSE IF data.t \in {"num", "null"} THEN "TypeError"
    ELSE IF data.t \in {"str", "list"} THEN "ValueError"
    ELSE IF ~HasKey(data, RequiredFields[i])
            \/ Falsy(Item(data, RequiredFields[i])) THEN "ValueError"
    ELSE CheckRequired(data, i + 1)

\* the strings of the parser's inputs, as character sequences
ParserStr ==
    [abc |-> <<"a", "b", "c">>,
     n09 |-> <<"0", ".", "9">>,
     Discovery |-> <<"D", "i", "s", "c", "o", "v", "e", "r", "y">>,
     Fresh |-> <<"F", "r", "e", "s", "h", " ", "A", "r", "t", "i", "s", "t">>,
     Matches |-> <<"M", "a", "t", "c", "h", "e", "s", " ", "u", "p", "b", "e", "a", "t", " ", "v", "i", "b", "e">>,
     cand1 |-> <<"c", "a", "n", "d", "1">>,
     Friday |-> <<"F", "r", "i", "d", "a", "y">>]

\* float(str): the number, or None for the ValueError
FloatOfStr(str) == IF str = ParserStr.n09 THEN Some(90) ELSE None

\* float(data.get("confidence", 0.5)): "" and the number, or the exception
CoerceConfidence(data) ==
    IF ~HasKey(data, "confidence") THEN <<"", 50>>
    ELSE LET c == Item(data, "confidence")
         IN  IF c.t = "num" THEN <<"", c.n>>
             ELSE IF c.t = "str"
                  THEN IF FloatOfStr(c.s) = None THEN <<"ValueError", 0>>
                       ELSE <<"", FloatOfStr(c.s)[1]>>
             ELSE <<"TypeError", 0>>

\* `value or None` for an optional string
OrNone(opt) == IF opt # None /\ opt[1] = <<>> THEN None ELSE opt

\* str(data.get(key)) when it is not None, for the string values drawn
OptionalStr(data, key) ==
    IF ItemOrNone(data, key) = None THEN None
    ELSE Some(ItemOrNone(data, key)[1].s)

OptionalLower(opt) == IF opt = None THEN None ELSE Some(Lower(opt[1]))

\* lines 283-301, once the required fields passed and conf is the float
BuildRec(data, conf) ==
    [title |-> Item(data, "title").s,
     artist |-> Item(data, "artist").s,
     reason |-> Item(data, "reason").s,
     energy_tag |-> OrNone(OptionalLower(OptionalStr(data, "energy_tag"))),
     spotify_track_id |-> OrNone(OptionalStr(data, "spotify_track_id")),
     confidence |-> Max(0, Min(100, conf))]

\* _parse_rec: Returned(recommendation) or Raised(exception)
ParseRecWithConfidence(data, c) ==
    IF c[1] # "" THEN Raised(c[1]) ELSE Returned(BuildRec(data, c[2]))

_parse_rec(data) ==
    IF CheckRequired(data, 1) # "" THEN Raised(CheckRequired(data, 1))
    ELSE ParseRecWithConfidence(data, CoerceConfidence(data))

\* the loop of lines 272-275: the first exception ends it
ParseRecsStep(one, rest) ==
    IF one.status = "raised" THEN one
    ELSE IF rest.status = "raised" THEN rest
    ELSE Returned(<<one.value>> \o rest.value)

RECURSIVE ParseRecs(_)
ParseRecs(recs) ==
    IF recs = <<>> THEN Returned(<<>>)
    ELSE ParseRecsStep(_parse_rec(Head(recs)), ParseRecs(Tail(recs)))

\* lines 268-275: payload.get exists on a dict only
ParsePayload(payload) ==
    IF payload.t # "obj" THEN Raised("AttributeError")
    ELSE IF ~HasKey(payload, "recommendations")
            \/ Item(payload, "recommendations").t # "list" THEN Raised("ValueError")
    ELSE ParseRecs(Item(payload, "recommendations").items)

ParseLoaded(loaded) ==
    IF loaded = None THEN Raised("ValueError") ELSE ParsePayload(loaded[1])

\* GPTResponseParser.parse
parse(text) == ParseLoaded(JsonLoads(_extract_json(text)))

(***************************************************************************)
(* Inputs of the parser.                                                   *)
(***************************************************************************)

Required == {<<"title", JStr(ParserStr.Discovery)>>, <<"artist", JStr(ParserStr.Fresh)>>,
             <<"reason", JStr(ParserStr.Matches)>>}

\* Required with the value of one key replaced
RequiredWith(key, v) == {kv \in Required : kv[1] # key} \cup {<<key, v>>}

\* the entries drawn: Full is the entry of test_response_parser_handles_json
\* with an upper-case energy tag; the others vary one part of Minimal
Entry ==
    [Full |->
        JObj(Required \cup {<<"spotify_track_id", JStr(ParserStr.cand1)>>, <<"energy_tag", JStr(ParserStr.Friday)>>, <<"confidence", JNum(73)>>}),
     Minimal |->
        JObj(Required),
     High |->
        JObj(Required \cup {<<"confidence", JNum(170)>>}),
     Low |->
        JObj(Required \cup {<<"confidence", JNum(-20)>>}),
     NullConfidence |->
        JObj(Required \cup {<<"confidence", JNull>>}),
     NullOptionals |->
        JObj(Required \cup {<<"spotify_track_id", JNull>>, <<"energy_tag", JNull>>}),
     EmptyOptionals |->
        JObj(Required \cup {<<"spotify_track_id", JStr(<<>>)>>, <<"energy_tag", JStr(<<>>)>>, <<"confidence", JStr(ParserStr.n09)>>}),
     BadConfidence |->
        JObj(Required \cup {<<"confidence", JStr(ParserStr.abc)>>}),
     NoTitle |->
        JObj({kv \in Required : kv[1] # "title"}),
     EmptyArtist |->
        JObj(RequiredWith("artist", JStr(<<>>))),
     NullReason |->
        JObj(RequiredWith("reason", JNull)),
     Number |->
        JNum(500),
     String |->
        JStr(ParserStr.Discovery)]

Entries == <<Entry.Full, Entry.Minimal, Entry.High, Entry.Low, Entry.NullConfidence,
             Entry.NullOptionals, Entry.EmptyOptionals, Entry.BadConfidence,
             Entry.NoTitle, Entry.EmptyArtist, Entry.NullReason, Entry.Number,
             Entry.String>>

EntryLists ==
    {[i \in 1..Len(ix) |-> Entries[ix[i]]] :
        ix \in SeqsUpTo(1..Len(Entries), MaxEntries)}

\* documents with a `recommendations` list
ListDocuments == {JObj({<<"recommendations", JList(es)>>}) : es \in EntryLists}

\* documents without one: no key, null, a string, an object; and documents
\* whose top level is an array, null, a string, a number
OtherDocuments ==
    <<JObj({}), JObj({<<"recommendations", JNull>>}),
      JObj({<<"recommendations", JStr(ParserStr.abc)>>}),
      JObj({<<"recommendations", Entry.Minimal>>}),
      JList(<<>>), JList(<<Entry.Minimal>>), JNull, JStr(ParserStr.abc), JNum(100)>>

\* the ways a response carries a document d
Wrappings(d) ==
    {<<Doc(d)>>,
     <<Fence, JsonTag, Doc(d), Fence>>,
     <<Fence, Doc(d), Fence>>,
     <<Prose, Fence, JsonTag, Doc(d), Fence, Prose>>,
     <<Fence, JsonTag, Doc(d)>>,
     <<Prose, Doc(d)>>}

Responses ==
    UNION {Wrappings(d) : d \in ListDocuments}
    \cup UNION {Wrappings(OtherDocuments[i]) : i \in 1..Len(OtherDocuments)}
    \cup {<<Prose>>, <<>>}

ParseIdle ==
    /\ response_text = <<>>
    /\ parsed = Returned(<<>>)

ParseInit ==
    /\ response_text \in Responses
    /\ parsed = Returned(<<>>)

Parse ==
    /\ pc = "parse"
    /\ parsed' = parse(response_text)
    /\ pc' = "parsed"
    /\ UNCHANGED response_text
    /\ UNCHANGED <<mergeVars, constraintVars, banVars, logVars, refreshVars, profileVars, feedbackVars, scoreVars, recommenderVars>>

(***************************************************************************)
(* gpt_recommender.py: run_gpt_recommender.  The completion client answers *)
(* with any text: the parser raises on it or returns recommendations.      *)
(***************************************************************************)
\* line 490: the discovery_target of the prompt
PromptTarget(limit, ratio) == Max(1, PyRound(limit * ratio, RatioDen))

\* client.complete(prompt), then parser.parse(raw_response)
ServiceAnswers ==
    {Raised("ValueError")} \cup {Returned(recs) : recs \in SeqsUpTo(Recs, MaxRecs)}

RecommenderIdle ==
    /\ prompt = None
    /\ client_calls = 0

RecommenderInit ==
    /\ base_tracks \in {<<>>, <<TA>>, <<TC, TA>>}
    /\ track_pool \in SeqsUpTo(Tracks, MaxPool)
    /\ gpt_recommendations = <<>>
    /\ total_limit \in 0..MaxLimit
    /\ discovery_ratio \in Ratios
    /\ rule_preferences = None
    /\ final_tracks = <<>>
    /\ warnings = <<>>
    /\ RecommenderIdle

RunGptRecommender ==
    /\ pc = "run_gpt_recommender"
    /\ IF discovery_ratio <= 0
       THEN /\ final_tracks' = base_tracks
            /\ warnings' = <<>>
            /\ gpt_recommendations' = <<>>
            /\ pc' = "recommended"
            /\ UNCHANGED <<prompt, client_calls>>
       ELSE /\ prompt' = Some([discovery_target |->
                                   PromptTarget(total_limit, discovery_ratio),
                               total_tracks |-> total_limit])
            /\ client_calls' = client_calls + 1
            /\ \E answer \in ServiceAnswers :
                  IF answer.status = "raised"
                  THEN /\ pc' = "recommender_raised"
                       /\ UNCHANGED <<gpt_recommendations, final_tracks, warnings>>
                  ELSE /\ gpt_recommendations' = answer.value
                       /\ MergeReturns(merge_gpt_recommendations(base_tracks,
                              track_pool, answer.value, total_limit,
                              discovery_ratio, rule_preferences))
                       /\ pc' = "recommended"
    /\ UNCHANGED <<base_tracks, track_pool, total_limit, discovery_ratio,
                   rule_preferences>>
    /\ UNCHANGED <<constraintVars, banVars, parseVars, logVars, refreshVars, profileVars, feedbackVars, scoreVars>>

(***************************************************************************)
(* gpt_recommender.py: log_recommendations.  The file is a sequence of     *)
(* tokens: a JSON text written by json.dumps, or a newline.                *)
(***************************************************************************)
Newline == [t |-> "nl"]

\* json.dumps(payload): one token, a JSON text holds no raw newline
JsonDumps(payload) == [t |-> "json", v |-> payload]

LogPayload(track, run_label, timestamp) ==
    [run_label |-> run_label, timestamp |-> timestamp,
     track_id |-> track.track_id, artist |-> track.artist,
     title |-> track.title, energy_tag |-> track.energy_tag,
     metadata |-> track.metadata]

\* the writes of one call: json.dumps(payload) + "\n" per track
RECURSIVE LogLines(_, _, _)
LogLines(ts, run_label, timestamp) ==
    IF ts = <<>> THEN <<>>
    ELSE <<JsonDumps(LogPayload(Head(ts), run_label, timestamp)), Newline>>
         \o LogLines(Tail(ts), run_label, timestamp)

\* the file after a call that opens it with mode "w"
log_recommendations_truncating(content, ts, run_label, timestamp) ==
    LogLines(ts, run_label, timestamp)

\* the file after log_recommendations(tracks, destination, run_label=...)
log_recommendations(content, ts, run_label, timestamp) ==
    content \o LogLines(ts, run_label, timestamp)

\* the (track, label) pairs of one call, for the record of what was logged
LoggedEntries(ts, run_label) ==
    [i \in 1..Len(ts) |-> [track_id |-> ts[i].track_id, run_label |-> run_label]]

\* a line written by an earlier process
OldLine == JsonDumps(LogPayload(TA, "old", 0))

LogChoices == {TA, TC}
RunLabels == {"unit-test", "monday"}

LogIdle ==
    /\ destination = <<>>
    /\ logged = <<>>
    /\ log_calls = 0

LogInit ==
    /\ \/ destination = <<>> /\ logged = <<>>
       \/ destination = <<OldLine, Newline>> /\ logged = LoggedEntries(<<TA>>, "old")
    /\ log_calls = 0

LogRecommendations ==
    /\ pc = "log"
    /\ log_calls < MaxLogCalls
    /\ \E ts \in SeqsUpTo(LogChoices, MaxLogTracks), run_label \in RunLabels :
          /\ destination' = log_recommendations(destination, ts, run_label,
                                                log_calls + 1)
          /\ logged' = logged \o LoggedEntries(ts, run_label)
    /\ log_calls' = log_calls + 1
    /\ UNCHANGED pc
    /\ UNCHANGED <<mergeVars, constraintVars, banVars, parseVars, refreshVars, profileVars, feedbackVars, scoreVars, recommenderVars>>

(***************************************************************************)
(* taste_profile.py: score_track.  Weights and scores are kept in          *)
(* hundredths, timestamps and `now` in ticks; a key a dict does not have   *)
(* is None in the records below.                                           *)
(***************************************************************************)
\* _weight
_weight(name, boosts, avoids) ==
    LET norm == normalize_text(name)
        hit(items) == \E i \in 1..Len(items) :
                         IsSubstring(normalize_text(items[i]), norm)
    IN  IF hit(boosts) THEN 1 ELSE IF hit(avoids) THEN -1 ELSE 0

\* dict.get(key, default) of an optional field
OrDefault(field, default) == IF field = None THEN default ELSE field[1]

\* abs
Abs(x) == IF x < 0 THEN -x ELSE x

\* (now - datetime.fromisoformat(ts)).days
DeltaDays(t, ts) == (t - ts) \div TicksPerDay

\* lines 124-137: the boost, like and avoid terms
ListTerms(track, profile) ==
    LET boost_w == OrDefault(profile.scoring.boost_weight, 100)
        like_w == OrDefault(profile.scoring.like_weight, 50)
        avoid_w == OrDefault(profile.scoring.avoid_weight, -50)
    IN  boost_w * _weight(track.artist, profile.boost.artists, <<>>)
        + boost_w * _weight(track.title, profile.boost.tracks, <<>>)
        + like_w * _weight(track.artist, profile.like.artists, <<>>)
        + like_w * _weight(track.title, profile.like.tracks, <<>>)
        + avoid_w * Abs(_weight(track.artist, <<>>, profile.avoid.artists))
        + avoid_w * Abs(_weight(track.title, <<>>, profile.avoid.tracks))

\* lines 139-147: discourage_artists and the first scene-anchor group that
\* names the artist
DiscoveryTerms(track, profile) ==
    LET boost_w == OrDefault(profile.scoring.boost_weight, 100)
        avoid_w == OrDefault(profile.scoring.avoid_weight, -50)
        names(items) == \E i \in 1..Len(items) :
                           IsSubstring(normalize_text(items[i]),
                                       normalize_text(track.artist))
    IN  (IF names(profile.discourage_artists) THEN avoid_w ELSE 0)
        + (IF \E g \in 1..Len(profile.scene_anchors) : names(profile.scene_anchors[g])
           THEN boost_w \div 2 ELSE 0)

\* the defaults of lines 151-152
DefaultRecentPlay == [within_days |-> 14, penalty |-> -100]
DefaultLongNoPlay == [after_days |-> 120, bonus |-> 0]

\* lines 149-162: the recent-play penalty and the long-no-play bonus
LastSeenTerms(track, profile, fs, t) ==
    LET artist_last == DictGet(fs.artist_last_seen, Lower(track.artist))
        track_last == DictGet(fs.track_last_seen, Lower(track.track_id))
        recent_cfg == OrDefault(profile.scoring.recent_play_penalty,
                                DefaultRecentPlay)
        long_cfg == OrDefault(profile.scoring.long_time_no_play_bonus,
                              DefaultLongNoPlay)
    IN  (IF artist_last # None
            /\ DeltaDays(t, artist_last[1]) <= recent_cfg.within_days
         THEN recent_cfg.penalty ELSE 0)
        + (IF track_last # None
              /\ DeltaDays(t, track_last[1]) <= recent_cfg.within_days
           THEN recent_cfg.penalty ELSE 0)
        + (IF track_last # None
              /\ DeltaDays(t, track_last[1]) >= long_cfg.after_days
           THEN long_cfg.bonus ELSE 0)

\* f"spotify:track:{track_id}".lower(), the prefix written as in FeedbackStr
TrackUri(track_id) == Lower(<<"s", ":", "t", ":">> \o track_id)

\* lines 164-173: the learned boosts; a TrackCandidate has no uri attribute
LearnedTerms(track, fs) ==
    (IF Lower(track.artist) \in fs.learned_boost_artists THEN 150 ELSE 0)
    + (IF track.track_id # <<>> /\ TrackUri(track.track_id) \in fs.liked_by_uri
       THEN 300 ELSE 0)

score_track(track, profile, fs, t) ==
    ListTerms(track, profile) + DiscoveryTerms(track, profile)
    + LastSeenTerms(track, profile, fs, t) + LearnedTerms(track, fs)

\* a profile without lists, and one that boosts, likes, avoids, discourages
\* and anchors
ScoreLists ==
    {[boost |-> [artists |-> <<>>, tracks |-> <<>>],
      like |-> [artists |-> <<>>, tracks |-> <<>>],
      avoid |-> [artists |-> <<>>, tracks |-> <<>>],
      discourage_artists |-> <<>>, scene_anchors |-> <<>>],
     [boost |-> [artists |-> <<TasteStr.Weezer>>, tracks |-> <<>>],
      like |-> [artists |-> <<>>, tracks |-> <<TasteStr.Song1>>],
      avoid |-> [artists |-> <<TasteStr.Other>>, tracks |-> <<TasteStr.Song2>>],
      discourage_artists |-> <<TasteStr.Other>>,
      scene_anchors |-> <<<<TasteStr.Other>>, <<TasteStr.Weezer>>>>]}

\* profile["scoring"]: every key absent, or weights, a window of one day and
\* a bonus after two days
ScoreSettings ==
    {[boost_weight |-> None, like_weight |-> None, avoid_weight |-> None,
      recent_play_penalty |-> None, long_time_no_play_bonus |-> None],
     [boost_weight |-> Some(200), like_weight |-> Some(60),
      avoid_weight |-> Some(-70),
      recent_play_penalty |-> Some([within_days |-> 1, penalty |-> -30]),
      long_time_no_play_bonus |-> Some([after_days |-> 2, bonus |-> 40])]}

ScoreIdle ==
    /\ scored_track = <<>>
    /\ score_profile = <<>>
    /\ score_state = <<>>
    /\ score_now = 0
    /\ score = 0

ScoreInit ==
    /\ scored_track \in {W1, W2, O3, V1}
    /\ \E lists \in ScoreLists, scoring \in ScoreSettings :
          score_profile = [scoring |-> scoring, boost |-> lists.boost,
                           like |-> lists.like, avoid |-> lists.avoid,
                           discourage_artists |-> lists.discourage_artists,
                           scene_anchors |-> lists.scene_anchors]
    /\ score_state \in [track_last_seen : LastSeenChoices(TasteStr.t1),
                        artist_last_seen : LastSeenChoices(TasteStr.weezer),
                        learned_boost_artists : {{}, {TasteStr.weezer}},
                        liked_by_uri : {{}, {TrackUri(TasteStr.t1)}}]
    /\ score_now = Now
    /\ score = 0

ScoreTrack ==
    /\ pc = "score_track"
    /\ score' = score_track(scored_track, score_profile, score_state, score_now)
    /\ pc' = "scored"
    /\ UNCHANGED <<scored_track, score_profile, score_state, score_now>>
    /\ UNCHANGED <<mergeVars, constraintVars, banVars, parseVars, logVars, refreshVars, profileVars, feedbackVars, recommenderVars>>

(***************************************************************************)
(* daily_dj_refresh.py: main(), from the reading of the ban table on.      *)
(* Track identifiers are opaque strings ("" is the empty identifier),      *)
(* dates are day numbers, durations are minutes.  The gpt_recommender      *)
(* module main() imports is not the one modelled above: its TrackCandidate *)
(* has a duration_ms and its run_gpt_recommender takes the search and      *)
(* feedback arguments; what it returns is any list of tracks.              *)
(***************************************************************************)
\* the inputs of a run: track identifiers, the day, its tag and the run label
RefreshIn ==
    [ids |-> <<"t1", "t2", "t3", "n1">>,
     today |-> 10,
     tag |-> <<"m", "o", "n", "d", "a", "y">>,
     other |-> <<"o", "t", "h", "e", "r">>,
     weez |-> <<"w", "e", "e", "z">>,
     run_label |-> "10-monday"]

\* _row_to_candidate: a row of the tracks table as a TrackCandidate; the date
\* string of last_played is a one-element sequence, '' the empty one
_row_to_candidate(track_id, row) ==
    [track_id |-> track_id, artist |-> row.artist, title |-> row.title,
     album |-> None, duration_ms |-> row.duration_ms,
     energy_tag |-> IF row.energy_tag = None THEN None
                    ELSE Some(Lower(row.energy_tag[1])),
     metadata |-> {<<"last_played", row.last_played>>}]

\* SELECT ... FROM tracks WHERE keep(row), in the order of RefreshIn.ids
SelectTracks(st, keep(_)) ==
    LET ids == SelectSeq(RefreshIn.ids,
                         LAMBDA id : id \in DOMAIN st.tracks /\ keep(st.tracks[id]))
    IN  [i \in 1..Len(ids) |-> _row_to_candidate(ids[i], st.tracks[ids[i]])]

get_candidate_tracks(st, tag) ==
    SelectTracks(st, LAMBDA row : row.energy_tag \in {Some(tag), None})

get_all_tracks(st) == SelectTracks(st, LAMBDA row : TRUE)

\* get_recent_track_ids with the cutoff day left out of the window
get_recent_track_ids_exclusive(st, today, days) ==
    {id \in DOMAIN st.tracks :
        /\ st.tracks[id].last_played # None
        /\ st.tracks[id].last_played[1] > today - days}

\* get_recent_track_ids: last_played >= today - days; NULL compares false
get_recent_track_ids(st, today, days) ==
    {id \in DOMAIN st.tracks :
        /\ st.tracks[id].last_played # None
        /\ st.tracks[id].last_played[1] >= today - days}

\* _apply_artist_rules up to the random test: the identifier and ban tests
ArtistRulesPass(track, recent_ids, cfg, dynamic_banned) ==
    /\ track.track_id # "" /\ track.track_id \notin recent_ids
    /\ ~\E b \in cfg.banned_artists : IsSubstring(b, Lower(track.artist))
    /\ Lower(track.artist) \notin dynamic_banned

\* the reduce-frequency test: random.random() < 0.66 decides for this track
ReduceFrequencyApplies(track, cfg) ==
    \E r \in cfg.reduce_frequency : IsSubstring(r, Lower(track.artist))

\* the list comprehension of lines 616-620, for every outcome of the random
\* tests: the tracks that pass for sure, and any of those a random test decides
EligibleLists(candidates, banned_ids, recent, cfg, dynamic_banned) ==
    LET pass == {i \in 1..Len(candidates) :
                    /\ candidates[i].track_id \notin banned_ids
                    /\ candidates[i].track_id \notin recent
                    /\ ArtistRulesPass(candidates[i], recent, cfg, dynamic_banned)}
        random == {i \in pass : ReduceFrequencyApplies(candidates[i], cfg)}
    IN  {SubseqAt(candidates, (pass \ random) \cup kept) : kept \in SUBSET random}

\* lines 616-630: the eligible list, broadened once to the full catalog
EligibleWithFallback(st, banned_ids, recent, cfg, dynamic_banned) ==
    UNION {IF eligible # <<>> THEN {eligible}
           ELSE EligibleLists(get_all_tracks(st), banned_ids, recent, cfg,
                              dynamic_banned) :
           eligible \in EligibleLists(get_candidate_tracks(st, RefreshIn.tag),
                                      banned_ids, recent, cfg, dynamic_banned)}

\* random.shuffle: every order of the list
Shuffles(s) == {[i \in 1..Len(s) |-> s[p[i]]] : p \in Permutations(1..Len(s))}

\* _select_for_duration: the loop from position i on
RECURSIVE SelectLoop(_, _, _, _, _, _)
SelectLoop(tracks, i, selected, total, target, minimum_count) ==
    IF i > Len(tracks) THEN selected
    ELSE IF tracks[i].track_id = ""
    THEN SelectLoop(tracks, i + 1, selected, total, target, minimum_count)
    ELSE LET sel == Append(selected, tracks[i])
             tot == total + (IF tracks[i].duration_ms = None THEN 0
                             ELSE tracks[i].duration_ms[1])
         IN  IF Len(sel) >= minimum_count /\ (target = 0 \/ tot >= target)
             THEN sel
             ELSE SelectLoop(tracks, i + 1, sel, tot, target, minimum_count)

_select_for_duration(tracks, target_minutes, minimum_count) ==
    SelectLoop(tracks, 1, <<>>, 0, Max(0, target_minutes), minimum_count)

\* what the try block of _maybe_run_gpt can do: run_gpt_recommender or
\* log_recommendations raises, or a RecommendationRunResult comes back
GptTrack(track_id) ==
    [track_id |-> track_id, artist |-> <<"N", "e", "w">>, title |-> <<"s">>,
     album |-> None, duration_ms |-> None, energy_tag |-> None,
     metadata |-> {<<"source", "gpt_discovery">>}]

GptOutcomes ==
    {Raised(exc) : exc \in {"service error", "ValueError"}}
    \cup {Returned([tracks |-> ts, warnings |-> r.warnings,
                    gpt_recommendations |-> r.recs]) :
            ts \in SeqsUpTo({GptTrack(id) : id \in {"t1", "t2", "n1", ""}},
                            MaxGptTracks),
            r \in {[warnings |-> <<>>, recs |-> <<>>],
                   [warnings |-> <<"not found in pool">>, recs |-> <<"rec">>]}}

\* the outcomes of the try block in a run: none when line 499 returns first
GptPass(cfg) ==
    IF cfg.enable_gpt /\ cfg.discovery_ratio > 0 THEN GptOutcomes
    ELSE {Raised("not called")}

\* _maybe_run_gpt with the list the except branch returns made empty
_maybe_run_gpt_drops_base(base, cfg, outcome) ==
    IF ~cfg.enable_gpt \/ cfg.discovery_ratio <= 0 THEN <<base, <<>>>>
    ELSE IF outcome.status = "raised"
    THEN <<<<>>, <<<<"GPT recommender skipped: ", outcome.exc>>>>>>
    ELSE <<outcome.value.tracks, outcome.value.warnings>>

\* _maybe_run_gpt: the tracks and the warnings it returns
_maybe_run_gpt(base, cfg, outcome) ==
    IF ~cfg.enable_gpt \/ cfg.discovery_ratio <= 0 THEN <<base, <<>>>>
    ELSE IF outcome.status = "raised"
    THEN <<base, <<<<"GPT recommender skipped: ", outcome.exc>>>>>>
    ELSE <<outcome.value.tracks, outcome.value.warnings>>

\* the final filter of lines 649-660 without the ban test
RECURSIVE FinalFilter_skips_bans(_, _, _, _)
FinalFilter_skips_bans(tracks, seen_ids, banned_ids, recent) ==
    IF tracks = <<>> THEN <<>>
    ELSE IF \/ Head(tracks).track_id = ""
            \/ Head(tracks).track_id \in seen_ids
            \/ Head(tracks).track_id \in recent
    THEN FinalFilter_skips_bans(Tail(tracks), seen_ids, banned_ids, recent)
    ELSE <<Head(tracks)>>
         \o FinalFilter_skips_bans(Tail(tracks),
                seen_ids \cup {Head(tracks).track_id}, banned_ids, recent)

\* the final filter of lines 649-660: filtered_final
RECURSIVE FinalFilter(_, _, _, _)
FinalFilter(tracks, seen_ids, banned_ids, recent) ==
    IF tracks = <<>> THEN <<>>
    ELSE IF \/ Head(tracks).track_id = ""
            \/ Head(tracks).track_id \in seen_ids
            \/ Head(tracks).track_id \in banned_ids
            \/ Head(tracks).track_id \in recent
    THEN FinalFilter(Tail(tracks), seen_ids, banned_ids, recent)
    ELSE <<Head(tracks)>>
         \o FinalFilter(Tail(tracks), seen_ids \cup {Head(tracks).track_id},
                        banned_ids, recent)

\* line 662
TrackIds(tracks) ==
    LET with_id == SelectSeq(tracks, LAMBDA t : t.track_id # "")
    IN  [i \in 1..Len(with_id) |-> with_id[i].track_id]

\* _replace_playlist_items: one replace of the first 100, then appends
_replace_playlist_items(playlist, track_ids) ==
    IF track_ids = <<>> THEN playlist
    ELSE Take(track_ids, 100) \o SubSeq(track_ids, 101, Len(track_ids))

\* COALESCE(column, value) over the rows of one track in order: the column
\* keeps its value, or takes the first value that is not NULL
Coalesce(column, values) ==
    LET given == SelectSeq(values, LAMBDA v : v # None)
    IN  IF column # None \/ given = <<>> THEN column ELSE Head(given)

\* ensure_tracks_exist: for every track in order INSERT OR IGNORE, then the
\* UPDATE with COALESCE of duration and tag; a row depends on the tracks of
\* its identifier only, taken in the order of the list
ensure_tracks_exist(table, tracks) ==
    [id \in DOMAIN table \cup {tracks[i].track_id : i \in 1..Len(tracks)} |->
        LET mine == SelectSeq(tracks, LAMBDA t : t.track_id = id)
            old == IF id \in DOMAIN table THEN table[id]
                   ELSE [artist |-> mine[1].artist, title |-> mine[1].title,
                         energy_tag |-> mine[1].energy_tag, last_played |-> None,
                         duration_ms |-> mine[1].duration_ms]
        IN  [old EXCEPT
                !.duration_ms =
                    Coalesce(@, [i \in 1..Len(mine) |-> mine[i].duration_ms]),
                !.energy_tag =
                    Coalesce(@, [i \in 1..Len(mine) |-> mine[i].energy_tag])]]

\* mark_tracks_played: UPDATE tracks SET last_played = today
mark_tracks_played(table, track_ids, today) ==
    [id \in DOMAIN table |->
        IF \E i \in 1..Len(track_ids) : track_ids[i] = id
        THEN [table[id] EXCEPT !.last_played = Some(today)] ELSE table[id]]

\* record_playlist_run: one playlist_runs row and its playlist_run_tracks
record_playlist_run(runs, run_label, today, tracks) ==
    Append(runs, [run_label |-> run_label, run_at |-> today,
                  tracks |-> [i \in 1..Len(tracks) |-> tracks[i].track_id]])

\* lines 662-674 with the writes before the test of track_ids
CommitOrAbort_writes_first(st, playlist, filtered_final, today) ==
    LET track_ids == TrackIds(filtered_final)
        written ==
            [pc |-> "committed",
             provider |-> _replace_playlist_items(playlist, track_ids),
             store |-> [st EXCEPT
                 !.tracks = mark_tracks_played(
                     ensure_tracks_exist(st.tracks, filtered_final),
                     track_ids, today),
                 !.runs = record_playlist_run(st.runs, RefreshIn.run_label,
                                              today, filtered_final)]]
    IN  IF track_ids = <<>> THEN [written EXCEPT !.pc = "aborted"] ELSE written

\* lines 662-674: RuntimeError when no identifier is left, else the commit
CommitOrAbort(st, playlist, filtered_final, today) ==
    LET track_ids == TrackIds(filtered_final)
    IN  IF track_ids = <<>>
        THEN [pc |-> "aborted", provider |-> playlist, store |-> st]
        ELSE [pc |-> "committed",
              provider |-> _replace_playlist_items(playlist, track_ids),
              store |-> [st EXCEPT
                  !.tracks = mark_tracks_played(
                      ensure_tracks_exist(st.tracks, filtered_final),
                      track_ids, today),
                  !.runs = record_playlist_run(st.runs, RefreshIn.run_label,
                                               today, filtered_final)]]

\* the locals of main() when it starts, with DYNAMIC_BANNED_ARTISTS, the day
\* date.today() gives, the provider calls the run has made so far, the number
\* of the run, and the tracks the user has taken off the playlist (by_user)
RunStart ==
    [banned_ids |-> {}, recent |-> {}, eligible |-> <<>>,
     base_selection |-> <<>>, total_limit |-> 0, final_tracks |-> <<>>,
     gpt_warnings |-> <<>>, gpt_calls |-> 0, gpt_failed |-> FALSE,
     filtered_final |-> <<>>, error |-> "",
     today |-> RefreshIn.today, dynamic_banned |-> {}, removed |-> {},
     calls |-> <<>>, run_no |-> 1, by_user |-> {}]

RefreshIdle ==
    /\ store = <<>>
    /\ provider = <<>>
    /\ config = <<>>
    /\ run = <<>>

\* the rows a track can have in the tracks table: today's tag and never
\* played, no tag and played inside the no-repeat window, another tag and
\* played before the window
RowChoices(artist, duration) ==
    {[artist |-> artist, title |-> <<"s">>, energy_tag |-> r.tag,
      last_played |-> r.played, duration_ms |-> duration] :
        r \in {[tag |-> Some(RefreshIn.tag), played |-> None],
               [tag |-> None, played |-> Some(RefreshIn.today - 1)],
               [tag |-> Some(ParserStr.Friday), played |-> Some(RefreshIn.today - 3)]}}

RefreshInit ==
    /\ \E present \in SUBSET {"t1", "t2"} :
          store \in [tracks : {f \in [present -> RowChoices(TasteStr.Weezer, Some(2))
                                       \cup RowChoices(TasteStr.Other, None)] :
                                  \A id \in present :
                                     f[id].artist = IF id = "t1" THEN TasteStr.Weezer
                                                    ELSE TasteStr.Other},
                     bans : SUBSET {"t1", "n1"},
                     artist_bans : {{}},
                     runs : {<<>>}]
    /\ provider = <<"t2", "zz">>
    /\ \E rules \in {[banned |-> {}, reduce |-> {}],
                     [banned |-> {RefreshIn.weez}, reduce |-> {}],
                     [banned |-> {}, reduce |-> {RefreshIn.other}]},
          gpt \in {[enable |-> TRUE, ratio |-> 2], [enable |-> TRUE, ratio |-> 0],
                   [enable |-> FALSE, ratio |-> 2]} :
          config \in [enable_gpt : {gpt.enable}, discovery_ratio : {gpt.ratio},
                      tracks_per_day : 1..MaxPerDay,
                      target_duration_minutes : {0, 3},
                      no_repeat_days : {2},
                      banned_artists : {rules.banned},
                      reduce_frequency : {rules.reduce}]
    /\ run = RunStart

\* main(), lines 612-639: the pool, its shuffle and the base selection
BuildPool ==
    /\ pc = "build_pool"
    /\ LET banned_ids == store.bans
           recent == get_recent_track_ids(store, run.today,
                                          config.no_repeat_days)
       IN  \E eligible \in EligibleWithFallback(store, banned_ids, recent, config,
                                                run.dynamic_banned) :
              IF eligible = <<>>
              THEN /\ pc' = "aborted"
                   /\ run' = [run EXCEPT !.banned_ids = banned_ids,
                                         !.recent = recent,
                                         !.error = "No eligible tracks found"]
              ELSE \E shuffled \in Shuffles(eligible) :
                      LET base == _select_for_duration(shuffled,
                                      config.target_duration_minutes,
                                      config.tracks_per_day)
                      IN  /\ pc' = "invoke_recommender"
                          /\ run' = [run EXCEPT
                                 !.banned_ids = banned_ids,
                                 !.recent = recent,
                                 !.eligible = shuffled,
                                 !.base_selection = base,
                                 !.total_limit = Max(config.tracks_per_day, Len(base))]
    /\ UNCHANGED <<store, provider, config>>
    /\ UNCHANGED <<mergeVars, constraintVars, banVars, parseVars, logVars, profileVars, feedbackVars, scoreVars, recommenderVars>>

\* main(), lines 641-648: _maybe_run_gpt, for every outcome of its try block
InvokeRecommender ==
    /\ pc = "invoke_recommender"
    /\ \E outcome \in GptPass(config) :
          LET called == outcome # Raised("not called")
              result == _maybe_run_gpt(run.base_selection, config, outcome)
          IN  /\ run' = [run EXCEPT
                     !.final_tracks = result[1],
                     !.gpt_warnings = result[2],
                     !.gpt_calls = IF called THEN @ + 1 ELSE @,
                     !.gpt_failed = called /\ outcome.status = "raised"]
              /\ destination' =
                     IF called /\ outcome.status = "returned"
                        /\ outcome.value.gpt_recommendations # <<>>
                     THEN log_recommendations(destination, outcome.value.tracks,
                                              RefreshIn.run_label, run.today)
                     ELSE destination
    /\ pc' = "final_filter"
    /\ UNCHANGED <<store, provider, config, logged, log_calls>>
    /\ UNCHANGED <<mergeVars, constraintVars, banVars, parseVars, profileVars, feedbackVars, scoreVars, recommenderVars>>

\* main(), lines 649-674: the final filter, then the abort or the commit
FilterAndCommit ==
    /\ pc = "final_filter"
    /\ LET filtered_final == FinalFilter(run.final_tracks, {}, run.banned_ids,
                                         run.recent)
           out == CommitOrAbort(store, provider, filtered_final, run.today)
       IN  /\ pc' = out.pc
           /\ provider' = out.provider
           /\ store' = out.store
           /\ run' = [run EXCEPT
                  !.filtered_final = filtered_final,
                  !.error = IF out.pc = "aborted"
                            THEN "No track IDs available to update the playlist"
                            ELSE @]
    /\ UNCHANGED config
    /\ UNCHANGED <<mergeVars, constraintVars, banVars, parseVars, logVars, profileVars, feedbackVars, scoreVars, recommenderVars>>

(***************************************************************************)
(* daily_dj_refresh.py: main() from its first line, one provider call and  *)
(* one store transaction at a time, and one run after another.  The bans   *)
(* table is the set of banned identifiers (store.bans) and, for the rows   *)
(* whose reason is 'manually removed from playlist', the artist recorded   *)
(* with them (store.removals).  A run can stop between two calls of its    *)
(* commit: the process is killed, or the provider or the database raises.  *)
(***************************************************************************)
\* get_banned_artists_db: the artist_bans rows, lower-cased
get_banned_artists_db(st) == {Lower(a) : a \in st.artist_bans}

\* the body of the loop of record_bans with reason 'manually removed from
\* playlist': the row, the count of the artist's removals, the artist ban
RecordBan(st, tid) ==
    LET artist == IF tid \in DOMAIN st.tracks THEN st.tracks[tid].artist ELSE <<>>
        removals == [id \in DOMAIN st.removals \cup {tid} |->
                        IF id = tid THEN artist ELSE st.removals[id]]
        count == Cardinality({id \in DOMAIN removals : removals[id] = artist})
    IN  [st EXCEPT !.bans = @ \cup {tid},
                   !.removals = removals,
                   !.artist_bans = IF artist # <<>> /\ count >= 3
                                   THEN @ \cup {Lower(artist)} ELSE @]

RECURSIVE record_bans(_, _)
record_bans(st, track_ids) ==
    IF track_ids = {} THEN st
    ELSE LET tid == CHOOSE t \in track_ids : TRUE
         IN  record_bans(RecordBan(st, tid), track_ids \ {tid})

\* fetch_playlist_track_ids: the identifiers of the playlist's items
fetch_playlist_track_ids(playlist) == SelectSeq(playlist, LAMBDA tid : tid # "")

\* load_last_run_info: ORDER BY run_at DESC, id DESC LIMIT 1
load_last_run_info(st) ==
    IF st.runs = <<>> THEN [run_at |-> None, ids |-> {}]
    ELSE LET last == CHOOSE i \in 1..Len(st.runs) :
                        \A j \in 1..Len(st.runs) :
                           \/ st.runs[j].run_at < st.runs[i].run_at
                           \/ st.runs[j].run_at = st.runs[i].run_at /\ j <= i
         IN  [run_at |-> Some(st.runs[last].run_at),
              ids |-> Range(st.runs[last].tracks)]

\* line 601
RemovedSinceLastRun(st, playlist) ==
    load_last_run_info(st).ids \ Range(fetch_playlist_track_ids(playlist))

\* lines 602-610 with one of the removed tracks banned only
AfterDetectRemovals_bans_one(st, playlist, today) ==
    LET last == load_last_run_info(st)
        removed == RemovedSinceLastRun(st, playlist)
    IN  IF removed = {} THEN st
        ELSE IF last.run_at # None /\ last.run_at[1] >= today THEN st
        ELSE record_bans(st, {CHOOSE t \in removed : TRUE})

\* lines 602-610: the store after the detect-removals step
AfterDetectRemovals(st, playlist, today) ==
    LET last == load_last_run_info(st)
        removed == RemovedSinceLastRun(st, playlist)
    IN  IF removed = {} THEN st
        ELSE IF last.run_at # None /\ last.run_at[1] >= today THEN st
        ELSE record_bans(st, removed)

\* _replace_playlist_items with a replace call for every batch
ProviderCalls_replaces_each(track_ids) ==
    [k \in 1..((Len(track_ids) + 99) \div 100) |->
        [op |-> "playlist_replace_items",
         ids |-> SubSeq(track_ids, 100 * (k - 1) + 1, Min(100 * k, Len(track_ids)))]]

\* the calls _replace_playlist_items makes after the first
RECURSIVE AddItemsCalls(_)
AddItemsCalls(remaining) ==
    IF remaining = <<>> THEN <<>>
    ELSE <<[op |-> "playlist_add_items", ids |-> Take(remaining, 100)]>>
         \o AddItemsCalls(SubSeq(remaining, 101, Len(remaining)))

\* the provider calls of _replace_playlist_items, in order
ProviderCalls(track_ids) ==
    IF track_ids = <<>> THEN <<>>
    ELSE <<[op |-> "playlist_replace_items", ids |-> Take(track_ids, 100)]>>
         \o AddItemsCalls(SubSeq(track_ids, 101, Len(track_ids)))

\* what a call does to the playlist
ApplyCall(playlist, call) ==
    IF call.op = "playlist_replace_items" THEN call.ids ELSE playlist \o call.ids

\* the artist of a track credited to two artists
TwoArtists == TasteStr.Weezer \o <<",", " ">> \o TasteStr.Other

MaxRuns == 2
\* a run follows the one before on the same day or two days later
DaySteps == {0, 2}

\* the last recorded run, of the day before RefreshIn.today
LastRun ==
    [run_label |-> "9-sunday", run_at |-> RefreshIn.today - 1,
     tracks |-> <<"t1", "n1">>]

\* a catalog row
CatalogRow(artist, tag, played) ==
    [artist |-> artist, title |-> <<"s">>, energy_tag |-> tag,
     last_played |-> played, duration_ms |-> None]

\* the store and the playlist a run can find.  No run is recorded yet and
\* the artist is banned or not; or LastRun is recorded with its tracks marked
\* played, the user has removed none, one or both of them from the playlist
\* since, and no removal or two removals of the artist are recorded already.
\* The recommender is switched off (ENABLE_GPT): InvokeRecommender hands the
\* base selection on.
RunsInit ==
    /\ \E found \in
             {[history |-> <<>>, removals |-> EmptyDict, artist_bans |-> b,
               kept |-> {}] : b \in {{}, {TasteStr.weezer}}}
             \cup {[history |-> <<LastRun>>, removals |-> r, artist_bans |-> {},
                    kept |-> k] :
                      r \in {EmptyDict, [id \in {"r1", "r2"} |-> TasteStr.Weezer]},
                      k \in SUBSET {1, 2}} :
          LET played == IF found.history = <<>> THEN None
                        ELSE Some(LastRun.run_at)
          IN  /\ store =
                   [tracks |-> [id \in {"t1", "t2", "t3", "n1"} |->
                        CASE id = "t1" -> CatalogRow(TasteStr.Weezer, None, played)
                          [] id = "t2" -> CatalogRow(TasteStr.Weezer,
                                                     Some(RefreshIn.tag), None)
                          [] id = "t3" -> CatalogRow(TwoArtists,
                                                     Some(RefreshIn.tag), None)
                          [] OTHER -> CatalogRow(TasteStr.Other, None, played)],
                    bans |-> DOMAIN found.removals,
                    removals |-> found.removals,
                    artist_bans |-> found.artist_bans,
                    runs |-> found.history]
              /\ provider = SubseqAt(LastRun.tracks, found.kept)
              /\ \E day \in {LastRun.run_at, RefreshIn.today} :
                    run = [RunStart EXCEPT
                              !.today = day,
                              !.by_user = IF found.history = <<>> THEN {}
                                          ELSE Range(LastRun.tracks)
                                               \ Range(provider)]
    /\ config \in [enable_gpt : {FALSE}, discovery_ratio : {2},
                   tracks_per_day : 1..MaxPerDay,
                   target_duration_minutes : {0},
                   no_repeat_days : {2},
                   banned_artists : {{}},
                   reduce_frequency : {{}}]

\* the identifier of the n-th track of a long list: three digits
Digits == <<"0", "1", "2", "3", "4", "5", "6", "7", "8", "9">>
LongId(n) ==
    Digits[(n \div 100) + 1] \o Digits[((n \div 10) % 10) + 1] \o Digits[(n % 10) + 1]

MaxCommit == 201

\* a run at line 667 with n tracks to commit, over one playlist or another
CommitInit ==
    /\ store = [tracks |-> EmptyDict, bans |-> {}, removals |-> EmptyDict,
                artist_bans |-> {}, runs |-> <<>>]
    /\ provider \in {<<>>, <<"old">>}
    /\ config = [enable_gpt |-> FALSE, discovery_ratio |-> 0,
                 tracks_per_day |-> 1, target_duration_minutes |-> 0,
                 no_repeat_days |-> 2, banned_artists |-> {},
                 reduce_frequency |-> {}]
    /\ \E n \in 1..MaxCommit :
          run = [RunStart EXCEPT
                    !.filtered_final = [i \in 1..n |-> GptTrack(LongId(i))]]

\* main(), lines 579-610: DYNAMIC_BANNED_ARTISTS, then the detect-removals step
DetectRemovals ==
    /\ pc = "detect_removals"
    /\ run' = [run EXCEPT
                  !.dynamic_banned = get_banned_artists_db(store),
                  !.removed = RemovedSinceLastRun(store, provider)]
    /\ store' = AfterDetectRemovals(store, provider, run.today)
    /\ pc' = "build_pool"
    /\ UNCHANGED <<provider, config>>
    /\ UNCHANGED <<mergeVars, constraintVars, banVars, parseVars, logVars, profileVars, feedbackVars, scoreVars, recommenderVars>>

\* main(), lines 649-665: the final filter and the test of track_ids
FilterFinal ==
    /\ pc = "final_filter"
    /\ LET filtered_final == FinalFilter(run.final_tracks, {}, run.banned_ids,
                                         run.recent)
       IN  IF TrackIds(filtered_final) = <<>>
           THEN /\ pc' = "aborted"
                /\ run' = [run EXCEPT
                       !.filtered_final = filtered_final,
                       !.error = "No track IDs available to update the playlist"]
           ELSE /\ pc' = "replace_items"
                /\ run' = [run EXCEPT !.filtered_final = filtered_final]
    /\ UNCHANGED <<store, provider, config>>
    /\ UNCHANGED <<mergeVars, constraintVars, banVars, parseVars, logVars, profileVars, feedbackVars, scoreVars, recommenderVars>>

\* main(), line 667: the next provider call of _replace_playlist_items
CallProvider ==
    /\ pc = "replace_items"
    /\ LET calls == ProviderCalls(TrackIds(run.filtered_final))
           call == calls[Len(run.calls) + 1]
       IN  /\ provider' = ApplyCall(provider, call)
           /\ run' = [run EXCEPT !.calls = Append(@, call)]
           /\ pc' = IF Len(run.calls) + 1 = Len(calls) THEN "ensure_tracks"
                    ELSE "replace_items"
    /\ UNCHANGED <<store, config>>
    /\ UNCHANGED <<mergeVars, constraintVars, banVars, parseVars, logVars, profileVars, feedbackVars, scoreVars, recommenderVars>>

\* main(), line 668
EnsureTracksExist ==
    /\ pc = "ensure_tracks"
    /\ store' = [store EXCEPT
                    !.tracks = ensure_tracks_exist(@, run.filtered_final)]
    /\ pc' = "mark_played"
    /\ UNCHANGED <<provider, config, run>>
    /\ UNCHANGED <<mergeVars, constraintVars, banVars, parseVars, logVars, profileVars, feedbackVars, scoreVars, recommenderVars>>

\* main(), line 669
MarkTracksPlayed ==
    /\ pc = "mark_played"
    /\ store' = [store EXCEPT
                    !.tracks = mark_tracks_played(@, TrackIds(run.filtered_final),
                                                  run.today)]
    /\ pc' = "record_run"
    /\ UNCHANGED <<provider, config, run>>
    /\ UNCHANGED <<mergeVars, constraintVars, banVars, parseVars, logVars, profileVars, feedbackVars, scoreVars, recommenderVars>>

\* main(), lines 670-674
RecordPlaylistRun ==
    /\ pc = "record_run"
    /\ store' = [store EXCEPT
                    !.runs = record_playlist_run(@, RefreshIn.run_label, run.today,
                                                 run.filtered_final)]
    /\ pc' = "committed"
    /\ UNCHANGED <<provider, config, run>>
    /\ UNCHANGED <<mergeVars, constraintVars, banVars, parseVars, logVars, profileVars, feedbackVars, scoreVars, recommenderVars>>

\* the run stops after a provider call and before record_playlist_run
StopRun ==
    /\ \/ pc = "replace_items" /\ run.calls # <<>>
       \/ pc \in {"ensure_tracks", "mark_played", "record_run"}
    /\ pc' = "stopped"
    /\ UNCHANGED refreshVars
    /\ UNCHANGED <<mergeVars, constraintVars, banVars, parseVars, logVars, profileVars, feedbackVars, scoreVars, recommenderVars>>

\* the next invocation of main(), the same day or a later one
StartRun ==
    /\ pc \in {"committed", "aborted", "stopped"}
    /\ run.run_no < MaxRuns
    /\ \E days \in DaySteps :
          run' = [RunStart EXCEPT !.today = run.today + days,
                                  !.run_no = run.run_no + 1,
                                  !.by_user = run.by_user]
    /\ pc' = "detect_removals"
    /\ UNCHANGED <<store, provider, config>>
    /\ UNCHANGED <<mergeVars, constraintVars, banVars, parseVars, logVars, profileVars, feedbackVars, scoreVars, recommenderVars>>

(***************************************************************************)
(* taste_profile.py: load_taste_profile.  Documents are JSON values; the   *)
(* file is a sequence of tokens: a document both parsers read, a document  *)
(* only the YAML parser reads, or text neither parser accepts.  Weights    *)
(* are kept in tenths, days and counts as they are.                        *)
(***************************************************************************)
YamlDoc(v) == [t |-> "yaml", v |-> v]
Malformed == [t |-> "malformed"]

NoTracks == JObj({<<"artists", JList(<<>>)>>, <<"tracks", JList(<<>>)>>})

DEFAULT_PROFILE ==
    JObj({<<"hard_bans", NoTracks>>, <<"avoid", NoTracks>>,
          <<"boost", NoTracks>>, <<"like", NoTracks>>,
          <<"track_rules",
            JObj({<<"hard_bans", JObj({<<"tracks", JList(<<>>)>>})>>,
                  <<"boost", JObj({<<"tracks", JList(<<>>)>>})>>,
                  <<"avoid", JObj({<<"tracks", JList(<<>>)>>})>>})>>,
          <<"constraints",
            JObj({<<"max_tracks_per_artist", JNum(2)>>,
                  <<"cooldown_days_same_track", JNum(30)>>,
                  <<"cooldown_days_same_artist", JNum(10)>>,
                  <<"dedupe_title_variants", JNum(0)>>})>>,
          <<"discovery",
            JObj({<<"ratio_default", JNum(0)>>,
                  <<"allowed_similarity", JList(<<>>)>>,
                  <<"discourage_artists", JList(<<>>)>>})>>,
          <<"scene_anchors", JObj({})>>,
          <<"scoring",
            JObj({<<"boost_weight", JNum(10)>>, <<"like_weight", JNum(5)>>,
                  <<"avoid_weight", JNum(-5)>>,
                  <<"hard_ban_weight", JNum(-99990)>>,
                  <<"played_through_bonus", JNum(0)>>,
                  <<"skipped_early_penalty", JNum(0)>>,
                  <<"recent_play_penalty",
                    JObj({<<"within_days", JNum(14)>>, <<"penalty", JNum(-10)>>})>>,
                  <<"long_time_no_play_bonus",
                    JObj({<<"after_days", JNum(120)>>, <<"bonus", JNum(0)>>})>>})>>,
          <<"vibe_tags", JList(<<>>)>>,
          <<"modes", JObj({})>>})

\* dict.get(key, default)
GetOr(obj, key, default) == IF HasKey(obj, key) THEN Item(obj, key) ELSE default

\* dict[key] = v
ObjSet(obj, key, v) ==
    JObj({kv \in obj.pairs : kv[1] # key} \cup {<<key, v>>})

\* dict.update(other)
ObjUpdate(obj, other) ==
    JObj({kv \in obj.pairs : ~HasKey(other, kv[1])} \cup other.pairs)

\* yaml.safe_load: None for an empty text, YAMLError for text it rejects
YamlLoad(content) ==
    IF content = <<>> THEN Returned(JNull)
    ELSE IF Len(content) = 1 /\ content[1].t \in {"doc", "yaml"}
    THEN Returned(content[1].v)
    ELSE Raised("YAMLError")

\* _load_yaml_like: yaml.safe_load(content) or {} when yaml is installed,
\* else json.loads(content) with {} for a JSONDecodeError
_load_yaml_like(content, has_yaml) ==
    IF has_yaml
    THEN LET loaded == YamlLoad(content)
         IN  IF loaded.status = "raised" THEN loaded
             ELSE IF Falsy(loaded.value) THEN Returned(JObj({}))
             ELSE loaded
    ELSE IF JsonLoads(content) = None THEN Returned(JObj({}))
    ELSE Returned(JsonLoads(content)[1])

\* lines 74-79 for one item of data: a dict value updates a copy of the
\* default's value, any other value replaces it
MergeKey(base, key, value) ==
    IF value.t = "obj"
    THEN ObjSet(base, key, ObjUpdate(GetOr(base, key, JObj({})), value))
    ELSE ObjSet(base, key, value)

\* the loop of lines 73-79; the keys of a dict are distinct, so the order of
\* the items does not matter
RECURSIVE MergeItems(_, _)
MergeItems(base, pairs) ==
    IF pairs = {} THEN base
    ELSE LET kv == CHOOSE kv \in pairs : TRUE
         IN  MergeItems(MergeKey(base, kv[1], kv[2]), pairs \ {kv})

\* lines 75-76 raise AttributeError when the default under the key is a list
\* and the user's value a dict: a list has no update
MergeRaises(data) ==
    \E kv \in data.pairs :
        /\ kv[2].t = "obj"
        /\ HasKey(DEFAULT_PROFILE, kv[1])
        /\ Item(DEFAULT_PROFILE, kv[1]).t # "obj"

\* list({*a, *b}): the distinct items in the iteration order of the set
ListOfSet(items, order) ==
    JList(SelectSeq(order, LAMBDA x : x \in items))

\* one block of lines 83-98: the tracks of track_rules[section] joined into
\* profile[section]["tracks"]; the sections hold dicts and the track
\* entries lists in the documents of ProfileDocuments
UnionTracks(merged, section, order) ==
    LET track_rules == GetOr(merged, "track_rules", JObj({}))
        rule_tracks == GetOr(GetOr(track_rules, section, JObj({})),
                             "tracks", JList(<<>>))
        target == GetOr(merged, section, JObj({}))
        own == GetOr(target, "tracks", JList(<<>>))
    IN  IF Falsy(rule_tracks) THEN merged
        ELSE ObjSet(merged, section,
                    ObjSet(target, "tracks",
                           ListOfSet(Range(own.items) \cup Range(rule_tracks.items),
                                     order)))

\* lines 72-100, data being what _load_yaml_like returned
MergeWithDefaults(data, order) ==
    IF data.t # "obj" THEN Raised("AttributeError")
    ELSE IF MergeRaises(data) THEN Raised("AttributeError")
    ELSE LET merged == MergeItems(DEFAULT_PROFILE, data.pairs)
             hard == UnionTracks(merged, "hard_bans", order)
             boosted == UnionTracks(hard, "boost", order)
             liked == UnionTracks(boosted, "like", order)
         IN  Returned(UnionTracks(liked, "avoid", order))

\* load_taste_profile: file is None when path does not exist
load_taste_profile(file, has_yaml, order) ==
    IF file = None THEN Returned(DEFAULT_PROFILE)
    ELSE LET data == _load_yaml_like(file[1], has_yaml)
         IN  IF data.status = "raised" THEN data
             ELSE MergeWithDefaults(data.value, order)

\* the items a user's document can hold: a part of a first-level map, of a
\* second-level map, a list, both track lists, and a key of its own
ProfileItems ==
    {<<"constraints", JObj({<<"max_tracks_per_artist", JNum(3)>>})>>,
     <<"scoring", JObj({<<"recent_play_penalty", JObj({<<"penalty", JNum(-20)>>})>>})>>,
     <<"vibe_tags", JList(<<JStr(<<"c", "a", "l", "m">>)>>)>>,
     <<"track_rules", JObj({<<"hard_bans", JObj({<<"tracks", JList(<<JStr(<<"x">>)>>)>>})>>})>>,
     <<"hard_bans", JObj({<<"tracks", JList(<<JStr(<<"y">>)>>)>>})>>,
     <<"region", JStr(<<"e", "u">>)>>}

ProfileDocuments ==
    {JObj(items) : items \in SUBSET ProfileItems}
    \cup {JNull, JNum(5), JStr(ParserStr.abc), JList(<<>>), JList(<<JStr(<<"x">>)>>)}

ProfileFiles ==
    {None, Some(<<>>), Some(<<Malformed>>)}
    \cup {Some(<<Doc(v)>>) : v \in ProfileDocuments}
    \cup {Some(<<YamlDoc(v)>>) : v \in ProfileDocuments}

ProfileIdle ==
    /\ profile_file = None
    /\ yaml_module = FALSE
    /\ set_order = <<>>
    /\ taste_profile = Returned(<<>>)

ProfileInit ==
    /\ profile_file \in ProfileFiles
    /\ yaml_module \in BOOLEAN
    /\ set_order \in {<<JStr(<<"x">>), JStr(<<"y">>)>>, <<JStr(<<"y">>), JStr(<<"x">>)>>}
    /\ taste_profile = Returned(<<>>)

LoadTasteProfile ==
    /\ pc = "load_taste_profile"
    /\ taste_profile' = load_taste_profile(profile_file, yaml_module, set_order)
    /\ pc' = "profile_loaded"
    /\ UNCHANGED <<profile_file, yaml_module, set_order>>
    /\ UNCHANGED <<mergeVars, constraintVars, banVars, parseVars, logVars, refreshVars, feedbackVars, scoreVars, recommenderVars>>

(***************************************************************************)
(* feedback_store.py: load_state.  The file is a sequence of lines: a      *)
(* blank line, a text json.loads rejects, or a JSON object.  Timestamps    *)
(* are kept in ticks.                                                      *)
(***************************************************************************)
Blank == [t |-> "blank"]

\* the strings of the event log: the three event types (shortened) and two
\* track URIs
FeedbackStr ==
    [generated |-> <<"g", "e", "n">>,
     like_track |-> <<"l", "i", "k", "e">>,
     boost_artist_auto |-> <<"b", "o", "o", "s", "t">>,
     uri1 |-> <<"s", ":", "t", ":", "T", "1">>,
     uri2 |-> <<"s", ":", "t", ":", "t", "2">>]


\* uri.rsplit(":", 1)[-1]
RECURSIVE AfterLastColon(_)
AfterLastColon(uri) ==
    IF \A i \in 1..Len(uri) : uri[i] # ":" THEN uri
    ELSE AfterLastColon(Tail(uri))

\* the assignments with the later of the two timestamps kept
RECURSIVE SetEach_keeps_latest(_, _, _)
SetEach_keeps_latest(index, keys, ts) ==
    IF keys = <<>> THEN index
    ELSE LET old == IF Head(keys) \in DOMAIN index THEN index[Head(keys)] ELSE ts
         IN  SetEach_keeps_latest(DictSet(index, Head(keys), Max(old, ts)),
                                  Tail(keys), ts)

\* for x in event.get(key, []): d[key_of(x)] = ts, the entries being strings
RECURSIVE SetEach(_, _, _)
SetEach(index, keys, ts) ==
    IF keys = <<>> THEN index
    ELSE SetEach(DictSet(index, Head(keys), ts), Tail(keys), ts)

SetAll(index, entries, ts, key_of(_)) ==
    SetEach(index, [i \in 1..Len(entries) |-> key_of(entries[i].s)], ts)

EmptyState ==
    [artist_last_seen |-> EmptyDict, track_last_seen |-> EmptyDict,
     liked_by_uri |-> {}, liked_by_artist |-> EmptyDict,
     learned_boost_artists |-> {}]

\* lines 43-50
ReplayGenerated(st, event, ts) ==
    LET picked == SetAll(st.track_last_seen,
                         GetOr(event, "picks", JList(<<>>)).items, ts,
                         LAMBDA uri : Lower(AfterLastColon(uri)))
    IN  [st EXCEPT
            !.track_last_seen =
                SetAll(picked, GetOr(event, "track_ids", JList(<<>>)).items, ts,
                       Lower),
            !.artist_last_seen =
                SetAll(@, GetOr(event, "artists", JList(<<>>)).items, ts, Lower)]

\* lines 51-58
ReplayLike(st, event) ==
    LET uri == GetOr(event, "track_uri", JNull)
        artist == GetOr(event, "artist", JStr(<<>>))
        count == IF Lower(artist.s) \in DOMAIN st.liked_by_artist
                 THEN st.liked_by_artist[Lower(artist.s)] ELSE 0
    IN  [st EXCEPT
            !.liked_by_uri = IF Falsy(uri) THEN @ ELSE @ \cup {Lower(uri.s)},
            !.liked_by_artist = IF Falsy(artist) THEN @
                                ELSE DictSet(@, Lower(artist.s), count + 1)]

\* lines 59-62
ReplayBoost(st, event) ==
    LET artist == GetOr(event, "artist", JStr(<<>>))
    IN  [st EXCEPT
            !.learned_boost_artists =
                IF Falsy(artist) THEN @ ELSE @ \cup {Lower(artist.s)}]

\* the body of the loop of lines 31-62 for one line
ReplayLine(st, line) ==
    IF line.t # "doc" THEN st
    ELSE LET event == line.v
             timestamp == GetOr(event, "timestamp", JNull)
             etype == GetOr(event, "type", JStr(<<>>))
         IN  IF Falsy(timestamp) THEN st
             ELSE IF etype = JStr(FeedbackStr.generated)
             THEN ReplayGenerated(st, event, timestamp.n)
             ELSE IF etype = JStr(FeedbackStr.like_track)
             THEN ReplayLike(st, event)
             ELSE IF etype = JStr(FeedbackStr.boost_artist_auto)
             THEN ReplayBoost(st, event)
             ELSE st

RECURSIVE ReplayLines(_, _)
ReplayLines(st, lines) ==
    IF lines = <<>> THEN st
    ELSE ReplayLines(ReplayLine(st, Head(lines)), Tail(lines))

\* lines 64-66 left out
AddDerivedBoosts_none(st, threshold) == st

\* lines 64-66: the artists whose count reached the threshold
AddDerivedBoosts(st, threshold) ==
    [st EXCEPT !.learned_boost_artists =
        @ \cup {artist \in DOMAIN st.liked_by_artist :
                   st.liked_by_artist[artist] >= threshold}]

\* load_state: file is None when path does not exist
load_state(file, artist_like_threshold) ==
    IF file = None THEN EmptyState
    ELSE AddDerivedBoosts(ReplayLines(EmptyState, file[1]), artist_like_threshold)

\* the events of the log: like_track, boost_artist_auto and generated events
\* as the recorders write them, a like_track event without its timestamp,
\* and one without its artist
LikeEvent(artist, uri, ts) ==
    Doc(JObj({<<"type", JStr(FeedbackStr.like_track)>>, <<"timestamp", JNum(ts)>>,
              <<"track_uri", JStr(uri)>>, <<"artist", JStr(artist)>>}))

BoostEvent(artist, ts) ==
    Doc(JObj({<<"type", JStr(FeedbackStr.boost_artist_auto)>>,
              <<"timestamp", JNum(ts)>>, <<"artist", JStr(artist)>>}))

EventLines ==
    {Blank, Malformed,
     LikeEvent(TasteStr.Weezer, FeedbackStr.uri1, 1),
     LikeEvent(TasteStr.weezer, FeedbackStr.uri2, 2),
     LikeEvent(TasteStr.Other, FeedbackStr.uri1, 1),
     LikeEvent(<<>>, FeedbackStr.uri2, 1),
     Doc(JObj({<<"type", JStr(FeedbackStr.like_track)>>,
               <<"track_uri", JStr(FeedbackStr.uri1)>>,
               <<"artist", JStr(TasteStr.Weezer)>>})),
     BoostEvent(TasteStr.Other, 2),
     Doc(JObj({<<"type", JStr(FeedbackStr.generated)>>, <<"timestamp", JNum(3)>>,
               <<"picks", JList(<<JStr(FeedbackStr.uri1)>>)>>,
               <<"track_ids", JList(<<JStr(TasteStr.T1)>>)>>,
               <<"artists", JList(<<JStr(TasteStr.Weezer)>>)>>}))}

FeedbackIdle ==
    /\ event_log = None
    /\ like_threshold = 0
    /\ replayed = <<>>

FeedbackInit ==
    /\ event_log \in {None} \cup {Some(ls) : ls \in SeqsUpTo(EventLines, MaxLogLines)}
    /\ like_threshold \in {1, 2, 5}
    /\ replayed = <<>>

GeneratedEvent(ts, picks, track_ids, artists) ==
    Doc(JObj({<<"type", JStr(FeedbackStr.generated)>>, <<"timestamp", JNum(ts)>>,
              <<"picks", JList([i \in 1..Len(picks) |-> JStr(picks[i])])>>,
              <<"track_ids", JList([i \in 1..Len(track_ids) |-> JStr(track_ids[i])])>>,
              <<"artists", JList([i \in 1..Len(artists) |-> JStr(artists[i])])>>}))

\* lines of a log of generated events: the same artist and track named at
\* ticks 3, 1 and 2, an event without its timestamp (tick 0), a like event
\* and a line json.loads rejects
ReplayedLines ==
    {GeneratedEvent(3, <<FeedbackStr.uri1>>, <<TasteStr.T1>>, <<TasteStr.Weezer>>),
     GeneratedEvent(1, <<FeedbackStr.uri2>>, <<>>, <<TasteStr.weezer, TasteStr.Other>>),
     GeneratedEvent(2, <<>>, <<TasteStr.T1>>, <<>>),
     GeneratedEvent(0, <<FeedbackStr.uri1>>, <<>>, <<TasteStr.Weezer>>),
     LikeEvent(TasteStr.Weezer, FeedbackStr.uri1, 4),
     Malformed}

ReplayInit ==
    /\ event_log \in {None} \cup {Some(ls) : ls \in SeqsUpTo(ReplayedLines, MaxLogLines)}
    /\ like_threshold = 5
    /\ replayed = <<>>

LoadState ==
    /\ pc = "load_state"
    /\ replayed' = load_state(event_log, like_threshold)
    /\ pc' = "state_loaded"
    /\ UNCHANGED <<event_log, like_threshold>>
    /\ UNCHANGED <<mergeVars, constraintVars, banVars, parseVars, logVars, refreshVars, profileVars, scoreVars, recommenderVars>>

\* a second load_state over the same file
ReloadState ==
    /\ pc = "state_loaded"
    /\ replayed' = load_state(event_log, like_threshold)
    /\ pc' = "state_reloaded"
    /\ UNCHANGED <<event_log, like_threshold>>
    /\ UNCHANGED <<mergeVars, constraintVars, banVars, parseVars, logVars, refreshVars, profileVars, scoreVars, recommenderVars>>

(***************************************************************************)
(* The specifications: one per operation, each applied to every input.     *)
(***************************************************************************)
InitMerge ==
    pc = "merge" /\ MergeInit /\ ConstraintsIdle /\ BanIdle /\ ParseIdle /\ LogIdle /\ RefreshIdle /\ ProfileIdle /\ FeedbackIdle /\ ScoreIdle /\ RecommenderIdle
SpecMerge == InitMerge /\ [][Merge]_vars

InitMergePrefs ==
    pc = "merge"
    /\ MergePrefsInit /\ ConstraintsIdle /\ BanIdle /\ ParseIdle /\ LogIdle /\ RefreshIdle
    /\ ProfileIdle /\ FeedbackIdle /\ ScoreIdle /\ RecommenderIdle
SpecMergePrefs == InitMergePrefs /\ [][Merge]_vars

InitConstraints ==
    pc = "apply_constraints"
    /\ MergeIdle /\ ConstraintsInit /\ BanIdle /\ ParseIdle /\ LogIdle /\ RefreshIdle /\ ProfileIdle /\ FeedbackIdle /\ ScoreIdle /\ RecommenderIdle
SpecConstraints == InitConstraints /\ [][ApplyConstraints]_vars

InitGreedy ==
    pc = "apply_constraints"
    /\ MergeIdle /\ GreedyInit /\ BanIdle /\ ParseIdle /\ LogIdle /\ RefreshIdle
    /\ ProfileIdle /\ FeedbackIdle /\ ScoreIdle /\ RecommenderIdle
SpecGreedy == InitGreedy /\ [][ApplyConstraints]_vars

InitHardBan ==
    pc = "is_hard_banned"
    /\ MergeIdle /\ ConstraintsIdle /\ BanInit /\ ParseIdle /\ LogIdle /\ RefreshIdle /\ ProfileIdle /\ FeedbackIdle /\ ScoreIdle /\ RecommenderIdle
SpecHardBan == InitHardBan /\ [][IsHardBanned]_vars

InitParse ==
    pc = "parse" /\ MergeIdle /\ ConstraintsIdle /\ BanIdle /\ ParseInit /\ LogIdle /\ RefreshIdle /\ ProfileIdle /\ FeedbackIdle /\ ScoreIdle /\ RecommenderIdle
SpecParse == InitParse /\ [][Parse]_vars

InitLog ==
    pc = "log" /\ MergeIdle /\ ConstraintsIdle /\ BanIdle /\ ParseIdle /\ LogInit /\ RefreshIdle /\ ProfileIdle /\ FeedbackIdle /\ ScoreIdle /\ RecommenderIdle
SpecLog == InitLog /\ [][LogRecommendations]_vars

InitRefresh ==
    pc = "build_pool"
    /\ MergeIdle /\ ConstraintsIdle /\ BanIdle /\ ParseIdle /\ LogIdle /\ RefreshInit /\ ProfileIdle /\ FeedbackIdle /\ ScoreIdle /\ RecommenderIdle
NextRefresh == BuildPool \/ InvokeRecommender \/ FilterAndCommit
SpecRefresh == InitRefresh /\ [][NextRefresh]_vars

InitProfile ==
    pc = "load_taste_profile"
    /\ MergeIdle /\ ConstraintsIdle /\ BanIdle /\ ParseIdle /\ LogIdle /\ RefreshIdle
    /\ ProfileInit /\ FeedbackIdle /\ ScoreIdle /\ RecommenderIdle
SpecProfile == InitProfile /\ [][LoadTasteProfile]_vars

InitFeedback ==
    pc = "load_state"
    /\ MergeIdle /\ ConstraintsIdle /\ BanIdle /\ ParseIdle /\ LogIdle /\ RefreshIdle
    /\ ProfileIdle /\ FeedbackInit /\ ScoreIdle /\ RecommenderIdle
SpecFeedback == InitFeedback /\ [][LoadState]_vars

InitReplay ==
    pc = "load_state"
    /\ MergeIdle /\ ConstraintsIdle /\ BanIdle /\ ParseIdle /\ LogIdle /\ RefreshIdle
    /\ ProfileIdle /\ ReplayInit /\ ScoreIdle /\ RecommenderIdle
NextReplay == LoadState \/ ReloadState
SpecReplay == InitReplay /\ [][NextReplay]_vars

InitRuns ==
    pc = "detect_removals"
    /\ MergeIdle /\ ConstraintsIdle /\ BanIdle /\ ParseIdle /\ LogIdle /\ RunsInit /\ ProfileIdle /\ FeedbackIdle /\ ScoreIdle /\ RecommenderIdle
NextRuns ==
    \/ DetectRemovals \/ BuildPool \/ InvokeRecommender \/ FilterFinal
    \/ CallProvider \/ EnsureTracksExist \/ MarkTracksPlayed
    \/ RecordPlaylistRun \/ StopRun \/ StartRun
SpecRuns == InitRuns /\ [][NextRuns]_vars

InitCommit ==
    pc = "replace_items"
    /\ MergeIdle /\ ConstraintsIdle /\ BanIdle /\ ParseIdle /\ LogIdle /\ CommitInit /\ ProfileIdle /\ FeedbackIdle /\ ScoreIdle /\ RecommenderIdle
NextCommit ==
    CallProvider \/ EnsureTracksExist \/ MarkTracksPlayed \/ RecordPlaylistRun
SpecCommit == InitCommit /\ [][NextCommit]_vars

InitScore ==
    pc = "score_track"
    /\ MergeIdle /\ ConstraintsIdle /\ BanIdle /\ ParseIdle /\ LogIdle /\ RefreshIdle /\ ProfileIdle /\ FeedbackIdle /\ ScoreInit /\ RecommenderIdle
SpecScore == InitScore /\ [][ScoreTrack]_vars

InitRecommender ==
    pc = "run_gpt_recommender"
    /\ RecommenderInit /\ ConstraintsIdle /\ BanIdle /\ ParseIdle /\ LogIdle /\ RefreshIdle /\ ProfileIdle /\ FeedbackIdle /\ ScoreIdle
SpecRecommender == InitRecommender /\ [][RunGptRecommender]_vars

(***************************************************************************)
(* Claims about merge_gpt_recommendations.                                 *)
(***************************************************************************)
Merged == pc = "merged"

\* the number of positions of s that satisfy P
CountIf(s, P(_)) == Cardinality({i \in 1..Len(s) : P(s[i])})

NoDuplicateIds(tracks) ==
    \A i, j \in 1..Len(tracks) :
        i # j => tracks[i].track_id # tracks[j].track_id

\* a track the merge enriched with a recommendation's reason
IsDiscoveryPick(track) == \E kv \in track.metadata : kv[1] = "gpt_reason"

DiscoveryPicks(tracks) == CountIf(tracks, IsDiscoveryPick)

\* the first occurrence of every identifier, in order
FirstOccurrences(tracks) ==
    LET keep == {i \in 1..Len(tracks) :
                    \A j \in 1..(i - 1) : tracks[j].track_id # tracks[i].track_id}
        nth(k) == CHOOSE i \in keep : Cardinality({j \in keep : j < i}) = k - 1
    IN  [k \in 1..Cardinality(keep) |-> tracks[nth(k)]]

\* the keys under which the pool is indexed
PoolKeys(pool) ==
    {Lower(pool[i].track_id) : i \in {j \in 1..Len(pool) : pool[j].track_id # <<>>}}
    \cup {_normalize_key(pool[i].artist, pool[i].title) : i \in 1..Len(pool)}

\* neither the identifier nor the artist::title key is among keys
UnmatchedIn(rec, keys) ==
    /\ \/ rec.spotify_track_id = None
       \/ rec.spotify_track_id[1] = <<>>
       \/ Lower(rec.spotify_track_id[1]) \notin keys
    /\ _normalize_key(rec.artist, rec.title) \notin keys

UnmatchedAmong(recs, keys) ==
    SelectSeq(recs, LAMBDA rec : UnmatchedIn(rec, keys))

UnmatchedRecs == UnmatchedAmong(gpt_recommendations, PoolKeys(track_pool))

\* C1: for total_limit > 0 and discovery_ratio in [0,1] the merge returns at
\* most total_limit tracks and no track identifier twice, whatever the inputs
\* repeat.
C1_MergeBoundedNoDuplicates ==
    (Merged /\ total_limit > 0 /\ discovery_ratio \in 0..RatioDen) =>
        /\ Len(final_tracks) <= total_limit
        /\ NoDuplicateIds(final_tracks)

\* C1 witness: inputs that repeat an identifier, more distinct tracks than
\* total_limit, and a full result.
C1_Witness ==
    /\ Merged /\ total_limit = 1 /\ discovery_ratio = RatioDen
    /\ ~NoDuplicateIds(base_tracks)
    /\ ~NoDuplicateIds(track_pool)
    /\ Len(gpt_recommendations) = 2
    /\ gpt_recommendations[1] = gpt_recommendations[2]
    /\ Len(final_tracks) = 1

\* C2: the discovery picks in the result never exceed
\* clamp(round(total_limit * discovery_ratio), 0, total_limit), for every
\* discovery_ratio, also below 0 and above 1.
C2_DiscoveryPicksWithinTarget ==
    Merged =>
        DiscoveryPicks(final_tracks)
            <= Max(0, Min(total_limit, PyRound(total_limit * discovery_ratio, RatioDen)))

\* C2 witness: two recommendations resolve to different tracks, the target
\* is 1 and one discovery pick is placed.
C2_Witness ==
    /\ Merged /\ total_limit = 2 /\ discovery_ratio = 2
    /\ Len(UnmatchedRecs) = 0
    /\ Len(gpt_recommendations) = 2
    /\ gpt_recommendations[1] # gpt_recommendations[2]
    /\ DiscoveryPicks(final_tracks) = 1

\* the result C3 states: the first occurrences of base_tracks cut at
\* total_limit, padded from the pool tracks not yet placed, in pool order
BasePaddedFromPool ==
    LET base == FirstOccurrences(base_tracks)
        rest == SelectSeq(FirstOccurrences(track_pool),
                          LAMBDA t : t.track_id \notin IdsOf(base))
    IN  IF Len(base) >= total_limit THEN Take(base, Max(0, total_limit))
        ELSE base \o Take(rest, total_limit - Len(base))

\* C3: with discovery_ratio = 0 and no rule preferences the result is
\* base_tracks truncated to total_limit and padded from track_pool, with no
\* discovery pick, however many recommendations are supplied.
C3_ZeroRatioIsBasePadded ==
    (Merged /\ discovery_ratio = 0 /\ rule_preferences = None) =>
        /\ final_tracks = BasePaddedFromPool
        /\ DiscoveryPicks(final_tracks) = 0

\* C3 witness: a base list that repeats a track, recommendations that match
\* the pool, and a result padded from the pool.
C3_Witness ==
    /\ Merged /\ discovery_ratio = 0 /\ total_limit = 2
    /\ Len(base_tracks) = 2 /\ ~NoDuplicateIds(base_tracks)
    /\ Len(gpt_recommendations) = 2 /\ Len(UnmatchedRecs) = 0
    /\ Len(final_tracks) = 2
    /\ final_tracks[2].track_id \notin IdsOf(base_tracks)

\* every discovery pick carries the reason of a recommendation that matched
PicksComeFromMatchedRecs(keys) ==
    \A i \in 1..Len(final_tracks) :
        IsDiscoveryPick(final_tracks[i]) =>
            \E k \in 1..Len(gpt_recommendations) :
                /\ ~UnmatchedIn(gpt_recommendations[k], keys)
                /\ <<"gpt_reason", gpt_recommendations[k].reason>>
                       \in final_tracks[i].metadata

\* one warning per unmatched recommendation, in order
WarningsAre(unmatched) ==
    /\ Len(warnings) = Len(unmatched)
    /\ \A i \in 1..Len(warnings) : warnings[i] = NotInPoolWarning(unmatched[i])

WarningsAreTheUnmatchedRecs == WarningsAre(UnmatchedRecs)

NoFabricatedTrack ==
    IdsOf(final_tracks) \subseteq IdsOf(base_tracks) \cup IdsOf(track_pool)

\* C4 as stated: in every merge there is one warning per unmatched
\* recommendation and nothing else, and no track is fabricated.
C4_Original ==
    Merged => (WarningsAreTheUnmatchedRecs
               /\ PicksComeFromMatchedRecs(PoolKeys(track_pool))
               /\ NoFabricatedTrack)

\* C4 amended: when total_limit > 0, every recommendation whose identifier
\* and artist::title key are both absent from the pool index produces
\* exactly one warning and no track; the warnings are exactly those, in
\* order, and every output identifier is one of base_tracks or track_pool.
C4_UnmatchedWarnOnce ==
    (Merged /\ total_limit > 0) =>
        (WarningsAreTheUnmatchedRecs
         /\ PicksComeFromMatchedRecs(PoolKeys(track_pool))
         /\ NoFabricatedTrack)

\* C4 witness: one recommendation matches by key, one matches nothing; one
\* warning, and the matched track is placed.
C4_Witness ==
    /\ Merged /\ total_limit = 2 /\ discovery_ratio = RatioDen
    /\ gpt_recommendations = <<RU, RK>>
    /\ Len(warnings) = 1
    /\ DiscoveryPicks(final_tracks) = 1

(***************************************************************************)
(* Claims about apply_constraints.                                         *)
(***************************************************************************)
Constrained == pc = "constrained"

ArtistKeyAt(i) == Lower(candidate_tracks[i].artist)

\* the track at input position i has no last-seen record younger than its
\* cooldown, for itself or for its artist
OutsideCooldowns(i) ==
    LET tk == Lower(candidate_tracks[i].track_id)
        ak == ArtistKeyAt(i)
    IN  /\ tk \in DOMAIN feedback_state.track_last_seen =>
              now - feedback_state.track_last_seen[tk]
                  >= constraints.cooldown_days_same_track * TicksPerDay
        /\ ak \in DOMAIN feedback_state.artist_last_seen =>
              now - feedback_state.artist_last_seen[ak]
                  >= constraints.cooldown_days_same_artist * TicksPerDay

\* the input positions of the returned tracks
Accepted ==
    Range(AcceptedPositions(candidate_tracks, constraints, feedback_state, now))

\* the positions of acc before i whose artist is that of position i
OfArtistBefore(acc, i) ==
    {j \in acc : j < i /\ ArtistKeyAt(j) = ArtistKeyAt(i)}

\* the title at position i is a variant of a title at a position of acc before
TitleSeenBefore(acc, i) ==
    /\ constraints.dedupe_title_variants
    /\ \E j \in acc :
          /\ j < i
          /\ normalize_text(candidate_tracks[j].title)
                = normalize_text(candidate_tracks[i].title)

\* without title dedupe: the first max_tracks_per_artist tracks of each artist
\* that are outside their cooldowns
EarliestPerArtist ==
    {i \in 1..Len(candidate_tracks) :
        /\ OutsideCooldowns(i)
        /\ Cardinality({j \in 1..(i - 1) :
                           OutsideCooldowns(j) /\ ArtistKeyAt(j) = ArtistKeyAt(i)})
              < constraints.max_tracks_per_artist}

\* C5 for the accepted positions acc
QuotaKeepsEarliest(acc) ==
    /\ filtered = SubseqAt(candidate_tracks, acc)
    /\ \A i \in 1..Len(filtered) :
          Cardinality({j \in 1..Len(filtered) :
                          Lower(filtered[j].artist) = Lower(filtered[i].artist)})
              <= constraints.max_tracks_per_artist
    /\ \A i \in 1..Len(candidate_tracks) :
          (i \notin acc /\ OutsideCooldowns(i) /\ ~TitleSeenBefore(acc, i)) =>
              Cardinality(OfArtistBefore(acc, i))
                  >= constraints.max_tracks_per_artist
    /\ ~constraints.dedupe_title_variants =>
          filtered = SubseqAt(candidate_tracks, EarliestPerArtist)
    /\ (/\ candidate_tracks = <<W1, W2, O3>>
        /\ constraints.max_tracks_per_artist = 1
        /\ feedback_state.track_last_seen = EmptyDict
        /\ feedback_state.artist_last_seen = EmptyDict) =>
          filtered = <<W1, O3>>

\* C5: the output holds at most max_tracks_per_artist tracks per lower-cased
\* artist, and the tracks kept for an artist are the earliest accepted ones in
\* input order; [Weezer, Weezer, Other] with a quota of 1 gives exactly
\* [first Weezer, Other].
C5_QuotaKeepsEarliest == Constrained => QuotaKeepsEarliest(Accepted)

\* C5 witness: the input of test_constraints_max_per_artist and its result.
C5_Witness ==
    /\ Constrained
    /\ candidate_tracks = <<W1, W2, O3>>
    /\ constraints.max_tracks_per_artist = 1
    /\ feedback_state.track_last_seen = EmptyDict
    /\ feedback_state.artist_last_seen = EmptyDict
    /\ filtered = <<W1, O3>>

\* C6 for the accepted positions acc
CooldownsRespected(acc) ==
    /\ filtered = SubseqAt(candidate_tracks, acc)
    /\ \A i \in acc : OutsideCooldowns(i)
    /\ \A i \in 1..Len(candidate_tracks) :
          (/\ i \notin acc
           /\ Lower(candidate_tracks[i].track_id)
                 \notin DOMAIN feedback_state.track_last_seen
           /\ ArtistKeyAt(i) \notin DOMAIN feedback_state.artist_last_seen) =>
              \/ Cardinality(OfArtistBefore(acc, i))
                    >= constraints.max_tracks_per_artist
              \/ TitleSeenBefore(acc, i)

\* C6: no output track has an artist or an identifier last seen less than the
\* cooldown before now, and a track with no last-seen record for itself or its
\* artist is never rejected by a cooldown (only by the quota or as a title
\* variant).
C6_CooldownsRespected == Constrained => CooldownsRespected(Accepted)

\* C6 witness: the artist was seen one day ago, the artist cooldown is two
\* days, the single candidate is excluded; its identifier has no record.
C6_Witness ==
    /\ Constrained
    /\ candidate_tracks = <<W1>>
    /\ constraints.max_tracks_per_artist = 1
    /\ constraints.cooldown_days_same_artist = 2
    /\ feedback_state.track_last_seen = EmptyDict
    /\ feedback_state.artist_last_seen = [k \in {TasteStr.weezer} |-> Now - TicksPerDay]
    /\ filtered = <<>>

(***************************************************************************)
(* Claims about is_hard_banned.                                            *)
(***************************************************************************)
BanChecked == pc = "ban_checked"

\* the words of a text: runs of characters other than whitespace, lower-cased,
\* punctuation dropped, "&" and "+" read as the word "and"; word is the run
\* being read
RECURSIVE WordsOf(_, _)
WordsOf(s, word) ==
    LET flush == IF word = <<>> THEN <<>> ELSE <<word>>
    IN  IF s = <<>> THEN flush
        ELSE IF Head(s) \in Whitespace THEN flush \o WordsOf(Tail(s), <<>>)
        ELSE IF Head(s) \in {"&", "+"}
             THEN flush \o <<(<<"a", "n", "d">>)>> \o WordsOf(Tail(s), <<>>)
        ELSE IF Head(s) \in Punctuation THEN WordsOf(Tail(s), word)
        ELSE WordsOf(Tail(s), Append(word, LowerChar(Head(s))))

RECURSIVE JoinWords(_)
JoinWords(words) ==
    IF words = <<>> THEN <<>>
    ELSE IF Len(words) = 1 THEN words[1]
    ELSE words[1] \o <<" ">> \o JoinWords(Tail(words))

\* the normalization C7 describes
Normalized(text) == JoinWords(WordsOf(text, <<>>))

\* a normalized hard-ban entry is a substring of the normalized artist or title
SomeBanMatches ==
    \/ \E i \in 1..Len(hard_bans.artists) :
          IsSubstring(Normalized(hard_bans.artists[i]), Normalized(ban_artist))
    \/ \E i \in 1..Len(hard_bans.tracks) :
          IsSubstring(Normalized(hard_bans.tracks[i]), Normalized(ban_title))

\* C7: is_hard_banned is true iff a normalized hard-ban entry is a substring
\* of the normalized artist or title; "Florence + The Machine" is banned by
\* "florence and the machine" and "Weezer" is not.
C7_HardBanIffNormalizedSubstring ==
    BanChecked =>
        /\ is_banned <=> SomeBanMatches
        /\ (ban_artist = BanStr.Florence
            /\ BanStr.florence \in Range(hard_bans.artists)) => is_banned
        /\ (ban_artist = TasteStr.Weezer /\ ban_title = BanStr.BuddyHolly
            /\ hard_bans = [artists |-> <<BanStr.florence>>, tracks |-> <<>>]) => ~is_banned

\* C7 witness: the banned case of test_hard_ban_artist.
C7_Witness ==
    /\ BanChecked
    /\ ban_artist = BanStr.Florence /\ ban_title = BanStr.DogDays
    /\ hard_bans = [artists |-> <<BanStr.florence>>, tracks |-> <<>>]
    /\ is_banned

(***************************************************************************)
(* Claims about GPTResponseParser.parse.                                   *)
(***************************************************************************)
Parsed == pc = "parsed"

\* the document the response carries, or None when it is no JSON
Loaded == JsonLoads(_extract_json(response_text))

\* the response is a structured document with a top-level recommendations list
HasRecommendationsList ==
    /\ Loaded # None
    /\ Loaded[1].t = "obj"
    /\ HasKey(Loaded[1], "recommendations")
    /\ Item(Loaded[1], "recommendations").t = "list"

ResponseEntries ==
    IF HasRecommendationsList THEN Item(Loaded[1], "recommendations").items
    ELSE <<>>

\* the entry lacks title, artist or reason
LacksRequired(entry) ==
    \/ entry.t # "obj"
    \/ \E key \in {"title", "artist", "reason"} :
          \/ ~HasKey(entry, key)
          \/ Item(entry, key) \in {JNull, JStr(<<>>)}

\* every optional field of the entry is absent or null
OptionalsAbsentOrNull(entry) ==
    \A key \in {"energy_tag", "spotify_track_id", "confidence"} :
        HasKey(entry, key) => Item(entry, key) = JNull

\* C8: parse fails with ValueError for every response that is no structured
\* document with a top-level recommendations list (a top level that is no
\* object included) and for every response with an entry that lacks title,
\* artist or reason; a failure returns no partial list, a success returns one
\* recommendation per entry in entry order.
C8_SchemaErrorForEveryBadResponse ==
    Parsed =>
        /\ (\/ ~HasRecommendationsList
            \/ \E i \in 1..Len(ResponseEntries) : LacksRequired(ResponseEntries[i]))
              => parsed = Raised("ValueError")
        /\ parsed.status = "raised" => parsed.value = <<>>
        /\ parsed.status = "returned" =>
              /\ Len(parsed.value) = Len(ResponseEntries)
              /\ \A i \in 1..Len(parsed.value) :
                    /\ parsed.value[i].title = Item(ResponseEntries[i], "title").s
                    /\ parsed.value[i].artist = Item(ResponseEntries[i], "artist").s
                    /\ parsed.value[i].reason = Item(ResponseEntries[i], "reason").s

\* the entry gives a confidence number above / below the bound (hundredths)
GivenAbove(entry, bound) ==
    /\ entry.t = "obj" /\ HasKey(entry, "confidence")
    /\ Item(entry, "confidence").t = "num"
    /\ Item(entry, "confidence").n > bound

GivenBelow(entry, bound) ==
    /\ entry.t = "obj" /\ HasKey(entry, "confidence")
    /\ Item(entry, "confidence").t = "num"
    /\ Item(entry, "confidence").n < bound

\* C9: every returned recommendation has a confidence in [0,1] (above 1
\* becomes 1, below 0 becomes 0; the model counts hundredths), an energy tag
\* that is lower-cased or null and an identifier that is a string or null, and
\* a response whose entries have their required fields and optional fields
\* that are absent or null is parsed without failure.
C9_OptionalFieldsNeverFailTheParse ==
    Parsed =>
        /\ parsed.status = "returned" =>
              \A i \in 1..Len(parsed.value) :
                 /\ parsed.value[i].confidence \in 0..100
                 /\ GivenAbove(ResponseEntries[i], 100)
                       => parsed.value[i].confidence = 100
                 /\ GivenBelow(ResponseEntries[i], 0)
                       => parsed.value[i].confidence = 0
                 /\ \/ parsed.value[i].energy_tag = None
                    \/ parsed.value[i].energy_tag[1]
                          = Lower(parsed.value[i].energy_tag[1])
                 /\ \/ parsed.value[i].spotify_track_id = None
                    \/ parsed.value[i].spotify_track_id[1] # <<>>
        /\ (/\ HasRecommendationsList
            /\ \A i \in 1..Len(ResponseEntries) :
                  /\ ~LacksRequired(ResponseEntries[i])
                  /\ OptionalsAbsentOrNull(ResponseEntries[i]))
              => parsed.status = "returned"

(***************************************************************************)
(* Claims about log_recommendations.                                       *)
(***************************************************************************)
\* str.splitlines() of the file, a trailing line without newline included;
\* line is the line being read
RECURSIVE SplitLines(_, _)
SplitLines(content, line) ==
    IF content = <<>> THEN (IF line = <<>> THEN <<>> ELSE <<line>>)
    ELSE IF Head(content) = Newline THEN <<line>> \o SplitLines(Tail(content), <<>>)
    ELSE SplitLines(Tail(content), Append(line, Head(content)))

\* the lines are one JSON text per entry, with its identifier and run label
LinesMatch(lines, entries) ==
    /\ Len(lines) = Len(entries)
    /\ \A i \in 1..Len(lines) :
          /\ Len(lines[i]) = 1
          /\ lines[i][1].t = "json"
          /\ lines[i][1].v.track_id = entries[i].track_id
          /\ lines[i][1].v.run_label = entries[i].run_label

\* C10: log_recommendations appends one JSON line per track, in track order,
\* with the track's identifier and the run label, and leaves the lines already
\* in the file unchanged: after any sequence of calls the file holds the
\* concatenation of all logged track lists.
C10_LogAppendsOneLinePerTrack ==
    pc = "log" => LinesMatch(SplitLines(destination, <<>>), logged)

\* C10 witness: a file with an old line, then two calls of two tracks each
\* under different run labels.
C10_Witness ==
    /\ pc = "log" /\ log_calls = 2
    /\ Len(logged) = 5
    /\ logged[1].run_label = "old"
    /\ logged[2].run_label = "unit-test" /\ logged[3].run_label = "unit-test"
    /\ logged[4].run_label = "monday" /\ logged[5].run_label = "monday"
    /\ logged[2].track_id # logged[3].track_id
    /\ Len(SplitLines(destination, <<>>)) = 5

(***************************************************************************)
(* Claims about a refresh run (main of daily_dj_refresh.py).               *)
(***************************************************************************)
InRefresh ==
    pc \in {"build_pool", "invoke_recommender", "final_filter", "committed",
            "aborted"}

\* C11: when the recommendation pass of a run fails, the list handed to the
\* final filter is the base selection, exactly one warning is reported, the
\* recommender was called once, and the run is not aborted: it commits the
\* base selection.
C11_FailedPassFallsBackToBase ==
    (InRefresh /\ run.gpt_failed) =>
        /\ run.final_tracks = run.base_selection
        /\ Len(run.gpt_warnings) = 1
        /\ run.gpt_calls = 1
        /\ pc \in {"final_filter", "committed"}
        /\ pc = "committed" => provider = TrackIds(run.base_selection)

\* C11 witness: a run whose recommender raised and which committed its two
\* base tracks.
C11_Witness ==
    /\ pc = "committed" /\ run.gpt_failed
    /\ Len(run.base_selection) = 2
    /\ provider = TrackIds(run.base_selection)
    /\ Len(store.runs) = 1

\* C12: the identifiers a run pushes to the provider and records as the run
\* are the same non-empty list, with no empty identifier, no identifier
\* twice, none in the ban table and none played within the no-repeat window
\* (ban table and last-played dates as they were when the run committed).
C12_CommittedListIsClean ==
    [][(pc = "final_filter" /\ pc' = "committed") =>
          /\ provider' # <<>>
          /\ provider' = store'.runs[Len(store'.runs)].tracks
          /\ \A i \in 1..Len(provider') :
                /\ provider'[i] # ""
                /\ provider'[i] \notin store.bans
                /\ provider'[i] \notin get_recent_track_ids(store, RefreshIn.today,
                                                            config.no_repeat_days)
                /\ \A j \in 1..Len(provider') : provider'[j] = provider'[i] => j = i
      ]_vars

\* C12 witness: the recommender handed back a banned track and a track that
\* is in the catalog; the run committed the second only.
C12_Witness ==
    /\ pc = "committed"
    /\ Len(run.final_tracks) = 2
    /\ run.final_tracks[1].track_id \in store.bans
    /\ provider = <<run.final_tracks[2].track_id>>
    /\ run.final_tracks[2].track_id \in DOMAIN store.tracks

\* C16: a run that ends fatally (no eligible track after the fallback to the
\* full catalog, or no identifier left after the final filter) raises its
\* error with the provider playlist, the last-played dates and the run
\* history as they were before the run: no step but the commit writes them.
C16_FatalRunWritesNothing ==
    [][(InRefresh /\ pc' # "committed") =>
          /\ provider' = provider
          /\ store'.tracks = store.tracks
          /\ store'.runs = store.runs
          /\ pc' = "aborted" =>
                run'.error \in {"No eligible tracks found",
                                "No track IDs available to update the playlist"}
      ]_vars

\* C16 witness: the recommender handed back tracks, none survived the final
\* filter, and the run aborted with playlist and run history untouched.
C16_Witness ==
    /\ pc = "aborted"
    /\ run.error = "No track IDs available to update the playlist"
    /\ Len(run.final_tracks) = 2
    /\ run.base_selection # <<>>
    /\ provider = <<"t2", "zz">>
    /\ store.runs = <<>>

(***************************************************************************)
(* Claims about load_taste_profile.                                        *)
(***************************************************************************)
ProfileLoaded == pc = "profile_loaded"

\* the document the parser in use reads from the file, None when there is
\* no file or the parser rejects its text
UserDocument ==
    IF profile_file = None \/ Len(profile_file[1]) # 1 THEN None
    ELSE IF profile_file[1][1].t = "doc" \/ (profile_file[1][1].t = "yaml" /\ yaml_module)
    THEN Some(profile_file[1][1].v)
    ELSE None

\* every key of the default is in the profile, at every depth
RECURSIVE HasDefaults(_, _)
HasDefaults(default, loaded) ==
    /\ loaded.t = "obj"
    /\ \A kv \in default.pairs :
          /\ HasKey(loaded, kv[1])
          /\ kv[2].t = "obj" => HasDefaults(kv[2], Item(loaded, kv[1]))

\* every number the user's document names is in the profile at its place
RECURSIVE NumbersKept(_, _)
NumbersKept(user, loaded) ==
    \A kv \in user.pairs :
        /\ loaded.t = "obj" /\ HasKey(loaded, kv[1])
        /\ kv[2].t = "num" => Item(loaded, kv[1]) = kv[2]
        /\ kv[2].t = "obj" => NumbersKept(kv[2], Item(loaded, kv[1]))

\* C13: for a user document that is a map, load_taste_profile returns a
\* profile holding every field of the default profile at every depth (a
\* nested map overridden in part keeps its other default leaves), with the
\* user's values at the leaves the document names.
C13_EveryDefaultFieldPresent ==
    (ProfileLoaded /\ UserDocument # None /\ UserDocument[1].t = "obj") =>
        /\ taste_profile.status = "returned"
        /\ HasDefaults(DEFAULT_PROFILE, taste_profile.value)
        /\ NumbersKept(UserDocument[1], taste_profile.value)

\* C14: load_taste_profile never raises; a missing file, a text the parser
\* rejects and a document that is not a map all give the default profile.
C14_LoaderNeverFails ==
    ProfileLoaded =>
        /\ taste_profile.status = "returned"
        /\ (UserDocument = None \/ UserDocument[1].t # "obj") =>
              taste_profile.value = DEFAULT_PROFILE

(***************************************************************************)
(* Claims about load_state.                                                *)
(***************************************************************************)
StateLoaded == pc = "state_loaded"

\* the events of the log: its JSON objects that carry a timestamp
LogEvents ==
    IF event_log = None THEN <<>>
    ELSE SelectSeq(event_log[1],
                   LAMBDA l : l.t = "doc" /\ ~Falsy(GetOr(l.v, "timestamp", JNull)))

\* the events of one type that name the artist, whatever the letter case
EventsNaming(etype, artist) ==
    {i \in 1..Len(LogEvents) :
        /\ GetOr(LogEvents[i].v, "type", JNull) = JStr(etype)
        /\ HasKey(LogEvents[i].v, "artist")
        /\ Lower(Item(LogEvents[i].v, "artist").s) = artist}

LoggedArtists == {Lower(TasteStr.Weezer), Lower(TasteStr.Other)}

\* C15: after load_state, every artist with at least artist_like_threshold
\* like_track events is in learned_boost_artists, with or without a
\* boost_artist_auto event, and so is every artist a boost_artist_auto
\* event names.
C15_ThresholdArtistsAreLearned ==
    StateLoaded =>
        \A artist \in LoggedArtists :
            /\ Cardinality(EventsNaming(FeedbackStr.like_track, artist)) >= like_threshold
                  => artist \in replayed.learned_boost_artists
            /\ EventsNaming(FeedbackStr.boost_artist_auto, artist) # {}
                  => artist \in replayed.learned_boost_artists

\* C15 witness: two like events for one artist under two spellings, the
\* threshold at two, no boost event in the log, and the artist is learned.
C15_Witness ==
    /\ StateLoaded
    /\ like_threshold = 2
    /\ Cardinality(EventsNaming(FeedbackStr.like_track, TasteStr.weezer)) = 2
    /\ \A artist \in LoggedArtists :
          EventsNaming(FeedbackStr.boost_artist_auto, artist) = {}
    /\ replayed.learned_boost_artists = {TasteStr.weezer}

(***************************************************************************)
(* Claims about the order of the merge.                                    *)
(***************************************************************************)
IdSeq(tracks) == [i \in 1..Len(tracks) |-> tracks[i].track_id]

\* the picks carry, in order, the reasons of recommendations in their order
PicksInRecOrder(picks) ==
    \E chosen \in SUBSET (1..Len(gpt_recommendations)) :
        /\ Cardinality(chosen) = Len(picks)
        /\ \A i \in 1..Len(picks) :
              <<"gpt_reason", SubseqAt(gpt_recommendations, chosen)[i].reason>>
                  \in picks[i].metadata

\* the order C17 states, picks being the discovery picks of the result
InMergeOrder(picks) ==
    /\ IdSeq(final_tracks)
         = IdSeq(Take(FirstOccurrences(picks \o base_tracks \o track_pool),
                      total_limit))
    /\ PicksInRecOrder(picks)
    /\ \A i \in 1..Len(final_tracks) :
          final_tracks[i].track_id \notin IdsOf(picks) \cup IdsOf(base_tracks)
              => Cardinality(IdsOf(picks) \cup IdsOf(base_tracks)) < total_limit

\* C17: without rule preferences the result is the discovery picks in
\* recommendation order, then base_tracks in input order, then the rest of
\* track_pool in pool order, each skipping identifiers already placed, cut at
\* total_limit; a pool track that is neither pick nor base track appears only
\* when picks and base tracks supply fewer than total_limit distinct tracks.
C17_DiscoveriesThenBaseThenPool ==
    (Merged /\ total_limit > 0 /\ rule_preferences = None) =>
        InMergeOrder(SelectSeq(final_tracks, IsDiscoveryPick))

\* C17 witness: one discovery pick, one base track and one pool track, in
\* that order.
C17_Witness ==
    /\ Merged /\ total_limit = 3
    /\ Len(final_tracks) = 3
    /\ IsDiscoveryPick(final_tracks[1])
    /\ final_tracks[2] = base_tracks[1]
    /\ ~IsDiscoveryPick(final_tracks[3])
    /\ final_tracks[3].track_id \notin IdsOf(base_tracks)
    /\ track_pool[1].track_id = final_tracks[1].track_id

\* the pool tracks the recommendations resolve to, by identifier
MatchedPoolIds ==
    IdsOf(_match_recommendations(gpt_recommendations,
                                 _build_track_index(track_pool))[1])

\* C18: recommendations that resolve to one pool track use one discovery
\* slot: the discovery picks placed number min(discovery_target, distinct
\* pool tracks matched).
C18_RepeatsUseNoSlot ==
    (Merged /\ total_limit > 0) =>
        DiscoveryPicks(final_tracks)
            = Min(DiscoveryTarget(total_limit, discovery_ratio),
                  Cardinality(MatchedPoolIds))

(***************************************************************************)
(* Claims about the preference sort of the merge.                          *)
(***************************************************************************)
\* the weight C19 states, in thousandths of thousandths: 1.3, 0.7 and 0.1
\* multiplied for the lists that hold the artist, whatever the letter case
StatedWeight(track, prefs) ==
    LET listed(items) ==
            \E i \in 1..Len(items) : Lower(items[i]) = Lower(track.artist)
    IN  (IF listed(prefs.increase_weight_artists) THEN 13 ELSE 10)
        * (IF listed(prefs.reduce_frequency_artists) THEN 7 ELSE 10)
        * (IF listed(prefs.banned_artists) THEN 1 ELSE 10)

PositionIn(tracks, track) == CHOOSE k \in 1..Len(tracks) : tracks[k] = track

\* final_tracks holds the tracks of `before` by non-increasing weight, tracks
\* of equal weight in the order of `before`
StablySorted(before, prefs) ==
    /\ Len(final_tracks) = Len(before)
    /\ Range(final_tracks) = Range(before)
    /\ \A i, j \in 1..Len(final_tracks) :
          i < j =>
            /\ StatedWeight(final_tracks[i], prefs) >= StatedWeight(final_tracks[j], prefs)
            /\ StatedWeight(final_tracks[i], prefs) = StatedWeight(final_tracks[j], prefs)
                 => PositionIn(before, final_tracks[i]) < PositionIn(before, final_tracks[j])

\* C19: with rule preferences the result is in non-increasing order of the
\* preference weight (1.3 for an increase-weight artist, 0.7 for a
\* reduce-frequency artist, 0.1 for a banned artist, multiplied, exact match
\* whatever the letter case), and tracks of equal weight keep the order the
\* merge gave them before the sort.
C19_SortedByPreferenceWeight ==
    (Merged /\ rule_preferences # None /\ total_limit > 0) =>
        StablySorted(merge_gpt_recommendations(base_tracks, track_pool,
                         gpt_recommendations, total_limit, discovery_ratio,
                         None)[1],
                     rule_preferences[1])

\* C19 witness: the increased artist's track moves from the last place to
\* the first, the two tracks of weight 1.0 keep their order.
C19_Witness ==
    /\ Merged
    /\ rule_preferences = Some(RulePreferences(<<>>, <<>>, <<<<"Y">>>>))
    /\ base_tracks = <<TA>> /\ track_pool = <<TB, TC>>
    /\ gpt_recommendations = <<>>
    /\ final_tracks = <<TC, TA, TB>>

(***************************************************************************)
(* Claims about the greedy pass of apply_constraints.                      *)
(***************************************************************************)
\* C20 for the accepted positions acc: the result is the input at acc, and
\* position i is accepted exactly when the accepted positions before it
\* leave its artist below the quota and do not hold its normalized title,
\* and its cooldowns are over
GreedyOver(acc) ==
    /\ filtered = SubseqAt(candidate_tracks, acc)
    /\ \A i \in 1..Len(candidate_tracks) :
          i \in acc <=>
            /\ Cardinality(OfArtistBefore(acc, i)) < constraints.max_tracks_per_artist
            /\ OutsideCooldowns(i)
            /\ ~TitleSeenBefore(acc, i)

NamedIn(event, field, key_of(_)) ==
    {key_of(entry.s) : entry \in Range(GetOr(event, field, JList(<<>>)).items)}

\* the generated events of the log that name the artist / the track
GeneratedNamingArtist(artist) ==
    {i \in 1..Len(LogEvents) :
        /\ GetOr(LogEvents[i].v, "type", JNull) = JStr(FeedbackStr.generated)
        /\ artist \in NamedIn(LogEvents[i].v, "artists", Lower)}

GeneratedNamingTrack(track) ==
    {i \in 1..Len(LogEvents) :
        /\ GetOr(LogEvents[i].v, "type", JNull) = JStr(FeedbackStr.generated)
        /\ track \in NamedIn(LogEvents[i].v, "track_ids", Lower)
                     \cup NamedIn(LogEvents[i].v, "picks",
                                  LAMBDA uri : Lower(AfterLastColon(uri)))}

\* last_seen holds, for every key, the timestamp of the last event of naming
LastInLogOrder(last_seen, key, naming) ==
    IF naming = {} THEN key \notin DOMAIN last_seen
    ELSE /\ key \in DOMAIN last_seen
         /\ last_seen[key]
              = Item(LogEvents[CHOOSE i \in naming : \A j \in naming : j <= i].v,
                     "timestamp").n

LastSeenFollowsLogOrder ==
    /\ \A artist \in LoggedArtists :
          LastInLogOrder(replayed.artist_last_seen, artist,
                         GeneratedNamingArtist(artist))
    /\ \A track \in {TasteStr.t1, TasteStr.t2} :
          LastInLogOrder(replayed.track_last_seen, track,
                         GeneratedNamingTrack(track))

\* C21: after a replay, artist_last_seen and track_last_seen hold the
\* timestamp of the last generated event in log order that names the key,
\* whatever the timestamps of earlier lines; a second replay of the same log
\* returns the same state and leaves the log as it was.
C21_LastSeenFollowsLogOrder ==
    [][/\ pc' \in {"state_loaded", "state_reloaded"} => LastSeenFollowsLogOrder'
       /\ pc' = "state_reloaded" => (replayed' = replayed /\ event_log' = event_log)
      ]_vars

\* C21 witness: the artist is named at tick 3 and, on a later line, at tick
\* 1; both replays give tick 1.
C21_Witness ==
    /\ pc = "state_reloaded"
    /\ Len(LogEvents) = 2
    /\ Item(LogEvents[1].v, "timestamp") = JNum(3)
    /\ Item(LogEvents[2].v, "timestamp") = JNum(1)
    /\ GeneratedNamingArtist(TasteStr.weezer) = {1, 2}
    /\ replayed.artist_last_seen[TasteStr.weezer] = 1

(***************************************************************************)
(* Claims about main() as a whole and about one run after another.         *)
(***************************************************************************)
ArtistsOf(tracks) == {Lower(tracks[i].artist) : i \in 1..Len(tracks)}

\* C22: an artist ban learned from removals is matched like a static ban, by
\* fragment: no track whose lower-cased artist contains an auto-banned artist
\* name is in the pool of the run.
C22_AutoBanMatchesFragments ==
    \A artist \in ArtistsOf(run.eligible) :
       ~\E b \in run.dynamic_banned : IsSubstring(b, artist)

\* the artists the detect-removals step of this run banned
BannedByThisRun == get_banned_artists_db(store) \ run.dynamic_banned

\* C23: an artist that the detect-removals step of a run bans is excluded by
\* that run: none of the artist's tracks is in its pool or in the list it
\* commits.
C23_AutoBannedArtistExcludedSameRun ==
    pc \in {"invoke_recommender", "final_filter", "replace_items",
            "ensure_tracks", "mark_played", "record_run", "committed"} =>
        /\ ArtistsOf(run.eligible) \cap BannedByThisRun = {}
        /\ ArtistsOf(run.filtered_final) \cap BannedByThisRun = {}

\* the run recorded last and the tracks of it the playlist no longer has
LastRecorded == store.runs[Len(store.runs)]
MissingFromPlaylist == Range(LastRecorded.tracks) \ Range(provider)

\* C24: the detect-removals step bans every track of the run recorded last
\* that the playlist no longer has, unless that run is of today, and then it
\* bans none; a track it banned is neither in the pool of the run nor in
\* the list the run pushes to the provider.
C24_RemovedTracksAreBanned ==
    [][/\ (pc = "detect_removals" /\ store.runs # <<>>) =>
             IF LastRecorded.run_at = run.today
             THEN store'.bans = store.bans
             ELSE MissingFromPlaylist \subseteq store'.bans
       /\ \A tid \in run'.removed \cap store'.bans :
             /\ tid \notin IdsOf(run'.eligible)
             /\ tid \notin IdsOf(run'.filtered_final)
             /\ \A c \in 1..Len(run'.calls) : tid \notin Range(run'.calls[c].ids)
      ]_vars

\* C24 witness: the user removed both tracks of yesterday's run; the run
\* banned both and committed another track.
C24_Witness ==
    /\ pc = "committed"
    /\ run.run_no = 1
    /\ run.removed = {"t1", "n1"}
    /\ run.removed \subseteq store.bans
    /\ Len(store.runs) = 2
    /\ provider # <<>>

\* C27: of two recorded runs at most no_repeat_days apart, the same day
\* included, the later one commits no track of the earlier one.
C27_NoRepeatWithinWindow ==
    \A i, j \in 1..Len(store.runs) :
       (i < j /\ store.runs[j].run_at - store.runs[i].run_at <= config.no_repeat_days)
          => Range(store.runs[i].tracks) \cap Range(store.runs[j].tracks) = {}

\* C27 witness: three recorded runs, the second the day after the first, the
\* third on the last day of the window of the second and, the window of the
\* first being over, with a track of the first.
C27_Witness ==
    /\ Len(store.runs) = 3
    /\ store.runs[2].run_at = store.runs[1].run_at + 1
    /\ store.runs[3].run_at = store.runs[2].run_at + config.no_repeat_days
    /\ Range(store.runs[1].tracks) \cap Range(store.runs[3].tracks) # {}

\* C28: the detect-removals step bans only tracks the user took off the
\* playlist, also in the run after one that stopped between its provider
\* call and the record of the run.
C28_OnlyUserRemovalsAreBanned ==
    [][pc = "detect_removals" => (store'.bans \ store.bans) \subseteq run.by_user]_vars

\* the identifiers the calls carry, one call after the other
RECURSIVE PushedIds(_)
PushedIds(calls) ==
    IF calls = <<>> THEN <<>> ELSE Head(calls).ids \o PushedIds(Tail(calls))

\* one replace call, then append calls only, each of 1 to 100 identifiers
ReplaceThenAppends(calls) ==
    \A k \in 1..Len(calls) :
       /\ calls[k].op = IF k = 1 THEN "playlist_replace_items"
                        ELSE "playlist_add_items"
       /\ Len(calls[k].ids) \in 1..100

\* C25: the commit pushes the final identifiers in order in calls of at most
\* 100: one replace call first, then append calls only, whose identifiers
\* put end to end are the final list, which is then the playlist; the store
\* is written only after the last provider call.
C25_BatchesThenStoreWrites ==
    [][/\ ReplaceThenAppends(run'.calls)
       /\ pc' \in {"ensure_tracks", "mark_played", "record_run", "committed"} =>
             /\ PushedIds(run'.calls) = IdSeq(run'.filtered_final)
             /\ provider' = IdSeq(run'.filtered_final)
       /\ store' # store =>
             /\ PushedIds(run.calls) = IdSeq(run.filtered_final)
             /\ run.calls # <<>>
             /\ provider' = provider /\ run'.calls = run.calls
      ]_vars

\* C25 witness: 201 identifiers committed in three calls, the last of one
\* identifier, over a playlist that had another track.
C25_Witness ==
    /\ pc = "committed"
    /\ Len(run.filtered_final) = 201
    /\ Len(run.calls) = 3
    /\ run.calls[3].ids = <<"201">>
    /\ Len(provider) = 201 /\ provider[1] = "001"
    /\ Len(store.runs) = 1

(***************************************************************************)
(* Claims about score_track.                                               *)
(***************************************************************************)
\* the score of the track with no last-seen record at all
ScoreUnseen ==
    score_track(scored_track, score_profile,
                [score_state EXCEPT !.track_last_seen = EmptyDict,
                                    !.artist_last_seen = EmptyDict],
                score_now)

\* a last-seen record of the key, at most `days` days old
SeenWithin(last_seen, key, days) ==
    /\ key \in DOMAIN last_seen
    /\ (score_now - last_seen[key]) \div TicksPerDay <= days

RecentPlayWindow ==
    IF score_profile.scoring.recent_play_penalty = None
    THEN DefaultRecentPlay ELSE score_profile.scoring.recent_play_penalty[1]

LongNoPlay ==
    IF score_profile.scoring.long_time_no_play_bonus = None
    THEN DefaultLongNoPlay ELSE score_profile.scoring.long_time_no_play_bonus[1]

\* C26: what the last-seen records add to the score is one recent-play
\* penalty when the artist or the track (or both) was seen within the
\* window, and the long-no-play bonus when the track's record is old enough;
\* with no record of the artist or the track they add nothing.
C26_OnePenaltyForArtistOrTrack ==
    pc = "scored" =>
        LET artist_seen == SeenWithin(score_state.artist_last_seen,
                                      Lower(scored_track.artist),
                                      RecentPlayWindow.within_days)
            track_seen == SeenWithin(score_state.track_last_seen,
                                     Lower(scored_track.track_id),
                                     RecentPlayWindow.within_days)
            track_old == /\ Lower(scored_track.track_id)
                              \in DOMAIN score_state.track_last_seen
                         /\ ~SeenWithin(score_state.track_last_seen,
                                        Lower(scored_track.track_id),
                                        LongNoPlay.after_days - 1)
        IN  score - ScoreUnseen
              = (IF artist_seen \/ track_seen THEN RecentPlayWindow.penalty
                 ELSE 0)
                + (IF track_old THEN LongNoPlay.bonus ELSE 0)

(***************************************************************************)
(* Claims about the rule preferences of the merge.                         *)
(***************************************************************************)
\* the number of times a track is in a list
TimesIn(tracks, t) == Cardinality({i \in 1..Len(tracks) : tracks[i] = t})

\* C29: with rule preferences the merge returns the tracks it returns
\* without them, in another order at most, and the same warnings: no track
\* is dropped for its artist being in the banned list and none comes in
\* that the limit had cut.
C29_PreferencesOnlyReorder ==
    (Merged /\ rule_preferences # None) =>
        LET plain == merge_gpt_recommendations(base_tracks, track_pool,
                         gpt_recommendations, total_limit, discovery_ratio, None)
        IN  /\ IdsOf(final_tracks) = IdsOf(plain[1])
            /\ \A t \in Range(plain[1]) \cup Range(final_tracks) :
                   TimesIn(final_tracks, t) = TimesIn(plain[1], t)
            /\ warnings = plain[2]

\* C29 witness: the banned artist's track stays in the result, behind the
\* increased artist's, and the pool track the limit cut stays out.
C29_Witness ==
    /\ Merged
    /\ rule_preferences = Some(RulePreferences(<<<<"Y">>>>, <<>>, <<<<"X">>>>))
    /\ base_tracks = <<TC, TA>> /\ track_pool = <<TB>>
    /\ total_limit = 2
    /\ final_tracks = <<TA, TC>>

(***************************************************************************)
(* Claims about run_gpt_recommender.                                       *)
(***************************************************************************)
\* C30: for a positive total_limit and a discovery_ratio in (0, 1] the
\* prompt asks for as many discovery picks as the merge's discovery_target
\* allows; for a discovery_ratio of 0 or less the client is not called and
\* the base tracks come back as they are, with no warnings.
C30_PromptAsksForMergeTarget ==
    pc = "recommended" =>
        /\ (total_limit > 0 /\ discovery_ratio > 0 /\ discovery_ratio <= RatioDen) =>
               /\ prompt # None
               /\ prompt[1].discovery_target
                    = DiscoveryTarget(total_limit, discovery_ratio)
        /\ discovery_ratio <= 0 =>
               /\ client_calls = 0 /\ prompt = None
               /\ final_tracks = base_tracks /\ warnings = <<>>

====
